---- MODULE Spec2Model ----
(***************************************************************************)
(* Model of the XRD analysis engine of openmsistream_short_course:         *)
(*   get_peak_segments     (src/src/xrd_analysis/analysis.py, 10-97)       *)
(*   get_segment_peak_fit  (src/src/xrd_analysis/analysis.py, 100-192)     *)
(*   get_angle_interval_size (src/src/xrd_analysis/utils.py, 37-64)        *)
(*                                                                         *)
(* Angles are integers: one unit is the last decimal place of the angle    *)
(* column (10^-max_precision).  Counts, heights and sigmas are integers.   *)
(* The peak detector (scipy.signal.find_peaks) and the least-squares       *)
(* engine (lmfit) are external: the first is a choice of a candidate peak  *)
(* list, the second a choice of fitted values.                             *)
(***************************************************************************)
EXTENDS Integers, Sequences, FiniteSets, TLC

\* ---------------------------------------------------------------- bounds
NSamples == 9        \* samples of the signal, indices 0..NSamples-1
MaxPeaks == 3        \* candidate peaks returned by the detector
MaxCount == 3        \* peak heights are 1..MaxCount
MaxSegPeaks == 2     \* peaks of the segment handed to get_segment_peak_fit
SigMax == 8          \* the signal handed to get_segment_peak_fit spans 0..SigMax
MaxCommands == 2     \* commands put on control_command_queue in one run
MaxCalls == 2        \* calls of get_segment_peak_fit on one signal
MaxLines == 9        \* lines of the file handed to the stream processor
MaxRetries == 3      \* n_connection_retries of the SensorPush writers
MaxReadings == 3     \* readings the writer takes from the sensor in one run
MaxNameLen == 3      \* characters of a device name
MaxFileLen == 5      \* bytes of the file handed to get_raw_file_name

\* angle steps of the signal, in units of the last decimal place
Steps == {4, 6, 10}
NeighborhoodIntervals == {0, 1, 2}
IntervalSeparations == {1, 2}
MinAngles == {0, 10}

VARIABLES
    xrd_angles,                  \* xrd_df["angle"], the angle column
    xrd_step,                    \* step between the first two angles of xrd_df
    error,                       \* the exception get_peak_segments raised
    neighborhood_intervals,      \* argument
    min_n_interval_separation,   \* argument
    min_angle,                   \* argument
    peaks,                       \* zip(peak_angles, peak_counts), line 49-50
    pc,                          \* position in get_peak_segments
    ip,                          \* position of the for loop of line 54 in peaks
    peak_angles_done,            \* line 53
    last_peaks_in_seg,           \* line 59
    peaks_in_seg,                \* line 60
    peak_segments,               \* line 52
    n_iter                       \* executions of the while body for this seed

segvars == <<xrd_angles, error, xrd_step, neighborhood_intervals, min_n_interval_separation,
             min_angle, peaks, pc, ip, peak_angles_done, last_peaks_in_seg,
             peaks_in_seg, peak_segments, n_iter>>

VARIABLES
    peak_seg,                    \* argument: a segment dictionary
    seg_df,                      \* angles of xrd_df within the segment, line 123
    min_peak_height,             \* argument
    min_sigma,                   \* argument
    params,                      \* the initial parameters of line 142
    result,                      \* the lmfit ModelResult: model components, params
    heap,                        \* the Python list objects, by reference
    valid_components,            \* reference of a list, line 146
    last_valid_components,       \* reference of a list or None, line 145
    fpc,                         \* position in get_segment_peak_fit
    n_pass,                      \* executions of the while body of line 147
    pass_input,                  \* model components the last pass looked at
    n_calls                      \* calls of get_segment_peak_fit so far

fitvars == <<peak_seg, seg_df, min_peak_height, min_sigma, params, result, heap,
             valid_components, last_valid_components, fpc, n_pass, pass_input,
             n_calls>>

VARIABLES
    update_secs,                 \* constructor argument, line 40
    alive,                       \* self.__alive, line 42
    control_command_queue,       \* contents of the asyncio.Queue of line 55
    tasks,                       \* state of each task of the list of line 56
    run_loop_pc,                 \* position of run_loop
    cmd,                         \* local of _handle_control_commands, line 98
    run_task_kind,               \* what the subclass's run_task does
    counter,                     \* test_controlled_process.py line 18
    checked,                     \* test_controlled_process.py line 19
    on_shutdown_called,          \* test_controlled_process.py line 20
    post_run_called,             \* test_controlled_process.py line 21
    n_put                        \* commands put on the queue so far

procvars == <<update_secs, alive, control_command_queue, tasks, run_loop_pc,
              cmd, run_task_kind, counter, checked, on_shutdown_called,
              post_run_called, n_put>>

\* get_raw_file_name, utils.py lines 7-34
VARIABLES
    source_kind,                 \* type of xrd_file_path_or_bytesio, lines 18-23
    file_bytes,                  \* the bytes of the file or of the BytesIO
    offset,                      \* read position of the byte source
    raw_pc,                      \* position of get_raw_file_name
    line_2,                      \* local of lines 22 and 25
    raw_file_name,               \* returned value, line 33
    raw_error                    \* exception raised, line 31

rawvars == <<source_kind, file_bytes, offset, raw_pc, line_2, raw_file_name,
             raw_error>>

\* XRDAnalysisStreamProcessor._process_downloaded_data_file and
\* add_datafile_to_db, xrd_analysis_stream_processor.py lines 52-162
VARIABLES
    n_lines,                     \* lines of datafile.bytestring
    already_stored,              \* the datasets table has the file's names
    datafile_as_read,            \* lines the BytesIO of line 62 has given out
    xrd_df,                      \* the rows of the DataFrame of line 71
    n_peak_segments,             \* len(peak_segments), line 79
    i_segment,                   \* segments the loop of line 80 has done
    session_new,                 \* rows added to the session, not committed
    db,                          \* the committed rows of the database
    add_pc,                      \* position in add_datafile_to_db
    exc,                         \* the exception add_datafile_to_db raised
    returned                     \* what _process_downloaded_data_file did

dbvars == <<n_lines, already_stored, datafile_as_read, xrd_df, n_peak_segments,
            i_segment, session_new, db, add_pc, exc, returned>>

\* SensorPushCSVWriter, sensorpush/sensor_push_csv_writer.py, and the file
\* names SensorPushStreamPlotter reads, sensorpush/sensor_push_stream_plotter.py
VARIABLES
    n_connection_retries,        \* constructor argument, line 44
    iretry,                      \* loop variable of line 119
    client_connected,            \* the BleakClient of line 118 is connected
    log,                         \* the messages logged by _connect_to_client
    read_unconnected,            \* a sensor read was made on a client not connected
    sp_pc,                       \* position of run_task
    sp_exc,                      \* the exception that ended run_task
    sp_alive,                    \* self.alive
    enqueued,                    \* every reading put on _reading_queue so far
    reading_queue,               \* contents of _reading_queue, line 52
    written,                     \* the readings written to CSV files so far
    n_files_written,             \* line 46
    enq_pc,                      \* position of _enqueue_readings
    wr_pc,                       \* position of _write_out_readings
    dev_name,                    \* line 84
    timestamp,                   \* reading[0], line 81
    csv_filename,                \* line 85
    dev_id,                      \* plotter line 67
    parsed_timestamp,            \* plotter line 68
    name_pc                      \* which of the two has handled the name

spvars == <<n_connection_retries, iretry, client_connected, log, read_unconnected,
            sp_pc, sp_exc, sp_alive, enqueued, reading_queue, written,
            n_files_written, enq_pc, wr_pc, dev_name, timestamp, csv_filename,
            dev_id, parsed_timestamp, name_pc>>

vars == <<segvars, fitvars, procvars, rawvars, dbvars, spvars>>

\* ------------------------------------------------------------- helpers
Range(s) == {s[i] : i \in 1..Len(s)}

Abs(x) == IF x < 0 THEN -x ELSE x

\* min(...) and max(...) of Python over a non-empty collection
MinOf(S) == CHOOSE x \in S : \A y \in S : x <= y
MaxOf(S) == CHOOSE x \in S : \A y \in S : x >= y

\* the elements of a set of integers as an ascending sequence
RECURSIVE SortedSeq(_)
SortedSeq(S) ==
    IF S = {} THEN <<>>
    ELSE LET m == MinOf(S) IN <<m>> \o SortedSeq(S \ {m})

\* an evenly spaced column of n angles starting at angle 0
UniformColumn(step, n) == [i \in 1..n |-> (i - 1) * step]

\* Series.round(max_precision - 1): one decimal place fewer than the data,
\* that is a multiple of 10 units, ties to even
RoundOneDecimalFewer(x) ==
    LET q == x \div 10
        r == x % 10
    IN  IF r < 5 THEN 10 * q
        ELSE IF r > 5 THEN 10 * (q + 1)
        ELSE IF q % 2 = 0 THEN 10 * q ELSE 10 * (q + 1)

\* utils.py line 59: the rounded differences of consecutive angles
StepSizes(angles) ==
    [i \in 1..(Len(angles) - 1) |-> RoundOneDecimalFewer(angles[i + 1] - angles[i])]

\* utils.py lines 58-64 with the differences compared as they are, unrounded
IntervalSizeError_Unrounded(angles) ==
    IF Len(angles) = 0 THEN "max_of_empty"
    ELSE IF Cardinality({angles[i + 1] - angles[i] : i \in 1..(Len(angles) - 1)}) # 1
    THEN "not_evenly_spaced"
    ELSE "none"

\* utils.py lines 58 and 60-64: max() of an empty column raises ValueError,
\* and so does a number of distinct step sizes other than 1
IntervalSizeError(angles) ==
    IF Len(angles) = 0 THEN "max_of_empty"
    ELSE IF Cardinality(Range(StepSizes(angles))) # 1 THEN "not_evenly_spaced"
    ELSE "none"

\* get_angle_interval_size on a column that raises nothing: step_sizes.iloc[0],
\* the rounded first step
get_angle_interval_size(step) == RoundOneDecimalFewer(step)

interval_size == get_angle_interval_size(xrd_step)

neighborhood_size == neighborhood_intervals * interval_size

\* 0.5 * neighborhood_size (interval_size is a multiple of 10, so exact)
HalfNeighborhood == neighborhood_size \div 2

\* Outcomes of scipy.signal.find_peaks(..., distance=min_n_interval_separation)
\* for a signal with the angle column angles: ascending sample indices, each
\* a local maximum (never the first or the last sample, never two adjacent
\* samples), any two at least `distance` samples apart, each with the count
\* found there.  wlen only limits the samples looked at around a peak, so a
\* signal shorter than the window has its local maxima found as well.
CandidatePeakListsOf(angles, distance) ==
    LET IndexSets == {I \in SUBSET (1..(Len(angles) - 2)) :
                        /\ Cardinality(I) <= MaxPeaks
                        /\ \A i, j \in I : i # j => Abs(i - j) >= 2
                        /\ \A i, j \in I : i # j => Abs(i - j) >= distance}
    IN  UNION {
          {[k \in 1..Len(SortedSeq(I)) |->
               <<angles[SortedSeq(I)[k] + 1], cnt[SortedSeq(I)[k]]>>]
             : cnt \in [I -> 1..MaxCount]}
          : I \in IndexSets}

\* the outcomes for the signal of the call
CandidatePeakLists(distance) == CandidatePeakListsOf(xrd_angles, distance)

\* -------------------------------------------------- get_peak_segments
\* line 55 without the test of min_angle
SeedSkipped_NoMinAngle(p) == p[1] \in peak_angles_done

\* line 55 without the test on peak_angles_done
SeedSkipped_IgnoresDone(p) == p[1] < min_angle

\* line 55: the seed is skipped
SeedSkipped(p) == p[1] < min_angle \/ p[1] \in peak_angles_done

\* line 62 (and 87) with the half neighbourhood added instead of subtracted
SegMinAngle_Added(ps) == MinOf({p[1] : p \in Range(ps)}) + HalfNeighborhood

\* lines 62-63
SegMinAngle(ps) == MinOf({p[1] : p \in Range(ps)}) - HalfNeighborhood
SegMaxAngle(ps) == MaxOf({p[1] : p \in Range(ps)}) + HalfNeighborhood

\* line 68 with seg_max_angle written for seg_min_angle
InWindow_MaxForMin(p, seg_min_angle, seg_max_angle) ==
    /\ p[1] >= seg_max_angle - HalfNeighborhood
    /\ p[1] <= seg_max_angle + HalfNeighborhood
    /\ p[1] >= min_angle

\* lines 68-70 without the test of line 70
InWindow_NoMinAngle(p, seg_min_angle, seg_max_angle) ==
    /\ p[1] >= seg_min_angle - HalfNeighborhood
    /\ p[1] <= seg_max_angle + HalfNeighborhood

\* lines 68-69 testing against the segment bounds of lines 62-63 themselves
InWindow_SegmentBounds(p, seg_min_angle, seg_max_angle) ==
    /\ p[1] >= seg_min_angle
    /\ p[1] <= seg_max_angle
    /\ p[1] >= min_angle

\* lines 68-70: the condition of the list comprehension
InWindow(p, seg_min_angle, seg_max_angle) ==
    /\ p[1] >= seg_min_angle - HalfNeighborhood
    /\ p[1] <= seg_max_angle + HalfNeighborhood
    /\ p[1] >= min_angle

\* lines 65-71
Recollect(ps) ==
    LET seg_min_angle == SegMinAngle(ps)
        seg_max_angle == SegMaxAngle(ps)
    IN  SelectSeq(peaks, LAMBDA p : InWindow(p, seg_min_angle, seg_max_angle))

\* lines 77-82
NearbyPeaksCounts(p, ps) ==
    LET near == SelectSeq(ps, LAMBDA o :
                   /\ Abs(p[1] - o[1]) < min_n_interval_separation * interval_size
                   /\ o[1] # p[1])
    IN  [k \in 1..Len(near) |-> near[k][2]]

\* line 83 with min written for max
KeepPeak_Smallest(p, ps) ==
    LET nearby_peaks_counts == NearbyPeaksCounts(p, ps)
    IN  \/ Len(nearby_peaks_counts) < 1
        \/ p[2] = MinOf({p[2]} \cup Range(nearby_peaks_counts))

\* line 83 with the counts of the whole cluster in place of the nearby ones
KeepPeak_TallestOfCluster(p, ps) ==
    p[2] = MaxOf({o[2] : o \in Range(ps)})

\* line 83
KeepPeak(p, ps) ==
    LET nearby_peaks_counts == NearbyPeaksCounts(p, ps)
    IN  \/ Len(nearby_peaks_counts) < 1
        \/ p[2] = MaxOf({p[2]} \cup Range(nearby_peaks_counts))

\* lines 75-84
FilteredPeaks(ps) == SelectSeq(ps, LAMBDA p : KeepPeak(p, ps))

\* lines 87-95
SegmentEntry(ps) ==
    [min |-> SegMinAngle(ps),
     max |-> SegMaxAngle(ps),
     peak_angles |-> [k \in 1..Len(ps) |-> ps[k][1]],
     peak_counts |-> [k \in 1..Len(ps) |-> ps[k][2]]]

\* the while loop of line 61 is left to run at most this many times per seed
MaxGrowIter == MaxPeaks + 3

\* line 61 comparing the lists by identity ("is not"): each pass builds a new list
GrowthContinues_Identity == TRUE

\* line 61: the condition of the while loop
GrowthContinues == peaks_in_seg # last_peaks_in_seg

\* get_peak_segments as a function of its arguments and of the detector's
\* outcome pks: the list it returns.  size is neighborhood_size, thr the
\* threshold of line 80.
\* lines 62-71
RecollectOf(pks, ps, size, min_a) ==
    LET seg_min_angle == MinOf({p[1] : p \in Range(ps)}) - size \div 2
        seg_max_angle == MaxOf({p[1] : p \in Range(ps)}) + size \div 2
    IN  SelectSeq(pks, LAMBDA p :
            /\ p[1] >= seg_min_angle - size \div 2
            /\ p[1] <= seg_max_angle + size \div 2
            /\ p[1] >= min_a)

\* lines 61-71
RECURSIVE GrownCluster(_, _, _, _, _)
GrownCluster(pks, last, ps, size, min_a) ==
    IF ps = last THEN ps
    ELSE GrownCluster(pks, ps, RecollectOf(pks, ps, size, min_a), size, min_a)

\* lines 75-86
FilteredPeaksOf(ps, thr) ==
    SelectSeq(ps, LAMBDA p :
        LET nearby_peaks_counts ==
                {o[2] : o \in {o \in Range(ps) : Abs(p[1] - o[1]) < thr /\ o[1] # p[1]}}
        IN  \/ nearby_peaks_counts = {}
            \/ p[2] = MaxOf({p[2]} \cup nearby_peaks_counts))

\* lines 87-96
SegmentEntryOf(ps, size) ==
    [min |-> MinOf({p[1] : p \in Range(ps)}) - size \div 2,
     max |-> MaxOf({p[1] : p \in Range(ps)}) + size \div 2,
     peak_angles |-> [k \in 1..Len(ps) |-> ps[k][1]],
     peak_counts |-> [k \in 1..Len(ps) |-> ps[k][2]]]

\* lines 52-97: the for loop from position i on
RECURSIVE SegmentsFrom(_, _, _, _, _, _, _)
SegmentsFrom(pks, i, done, segs, size, thr, min_a) ==
    IF i > Len(pks) THEN segs
    ELSE IF pks[i][1] < min_a \/ pks[i][1] \in done
    THEN SegmentsFrom(pks, i + 1, done, segs, size, thr, min_a)
    ELSE LET cluster == GrownCluster(pks, <<>>, <<pks[i]>>, size, min_a) IN
         SegmentsFrom(pks, i + 1, done \cup {p[1] : p \in Range(cluster)},
                      Append(segs, SegmentEntryOf(FilteredPeaksOf(cluster, thr), size)),
                      size, thr, min_a)

\* lines 39-97
get_peak_segments(step, n_intervals, separation, min_a, pks) ==
    SegmentsFrom(pks, 1, {}, <<>>,
                 n_intervals * get_angle_interval_size(step),
                 separation * get_angle_interval_size(step), min_a)

\* ----------------------------------------------- get_segment_peak_fit
None == 0

\* the components of the lmfit model, named by their prefix
LinearModel == [prefix |-> "linear", i_p |-> 0]
PseudoVoigtModel(i) == [prefix |-> "voigt", i_p |-> i]

\* component.prefix.startswith("voigt"), lines 151 and 161
IsVoigt(component) == component.prefix = "voigt"

\* 0.7, the default of max_sigma_scale_factor, in tenths
MaxSigmaScaleTenths == 7

\* fitted values the least-squares engine may report for a peak component
FitValues == [height : {1, 2}, center : {4, 5}, sigma : {1, 2}]

\* arguments of the calls
SegFirstAngles == {3, 4, 5}
SegHalfNeighborhoods == {0, 1}

\* a segment dictionary as get_peak_segments builds it: k peaks one sample
\* apart from angle a1 on, and min/max half a neighbourhood h around them
PeakSegOf(a1, k, h) ==
    [min |-> a1 - h,
     max |-> a1 + (k - 1) + h,
     peak_angles |-> [j \in 1..k |-> a1 + (j - 1)],
     peak_counts |-> [j \in 1..k |-> j]]

\* lines 123-125: the angles of the rows within the segment
SegDf(seg) == {a \in 0..SigMax : a >= seg.min /\ a <= seg.max}

\* lines 127-136: linear background, then one pseudo-Voigt per segment peak
InitialModel(seg) ==
    <<LinearModel>> \o [j \in 1..Len(seg.peak_angles) |-> PseudoVoigtModel(j - 1)]

VoigtsOf(components) == {c \in Range(components) : IsVoigt(c)}

\* Outcomes of Model.fit: fitted height, center and sigma of every peak
\* component of the model
FitOutcomes(components) == [VoigtsOf(components) -> FitValues]

\* what the optimizer reports: converged, not converged, aborted
FitStatuses == {[success |-> TRUE, aborted |-> FALSE],
                [success |-> FALSE, aborted |-> FALSE],
                [success |-> FALSE, aborted |-> TRUE]}

\* the ModelResult of model.fit, lines 143 and 191
FitResult(components, fitted, status) ==
    [components |-> components, params |-> fitted,
     success |-> status.success, aborted |-> status.aborted]

\* no fit yet
NoResult == FitResult(<<>>, <<>>, [success |-> FALSE, aborted |-> FALSE])

\* Parameter values are in hundredths (0.05 is 5, -0.01 is -1, 1 is 100).
\* lines 128-140: the keyword arguments collected for make_params, by
\* component and parameter name
make_params_kwargs(seg) ==
    [key \in ({<<LinearModel, "slope">>, <<LinearModel, "intercept">>} \cup
              {<<PseudoVoigtModel(j - 1), name>> :
                   j \in 1..Len(seg.peak_angles),
                   name \in {"amplitude", "center", "sigma", "gamma"}}) |->
        CASE key[2] = "slope" -> -1
          [] key[2] = "intercept" -> 0
          [] key[2] = "amplitude" -> 100 * seg.peak_counts[key[1].i_p + 1]
          [] key[2] = "center" -> 100 * seg.peak_angles[key[1].i_p + 1]
          [] key[2] = "sigma" -> 5
          [] key[2] = "gamma" -> 100]

\* the parameters lmfit gives a component: a pseudo-Voigt has amplitude,
\* center, sigma and fraction, and no gamma
ParamNames(component) ==
    IF IsVoigt(component) THEN {"amplitude", "center", "sigma", "fraction"}
    ELSE {"slope", "intercept"}

\* the initial value lmfit gives a parameter no keyword argument names:
\* fraction 0.5 by the hint of PseudoVoigtModel, amplitude and sigma 1, the
\* others 0
DefaultValue(name) ==
    CASE name = "fraction" -> 50
      [] name \in {"amplitude", "sigma"} -> 100
      [] OTHER -> 0

\* line 142: model.make_params(**make_params_kwargs) gives every parameter
\* of the model the keyword argument of its name, or else its default; a
\* keyword argument that names no parameter of the model sets none of them
make_params(components, kwargs) ==
    [key \in UNION {{<<c, name>> : name \in ParamNames(c)} : c \in Range(components)} |->
        IF key \in DOMAIN kwargs THEN kwargs[key] ELSE DefaultValue(key[2])]

\* lines 164-173: abs(center - other center) / sigma < 1, sigma being positive
WithinOneSigma(center_value, other_center, sigma_value) ==
    Abs(center_value - other_center) < sigma_value

\* lines 159-174 with the sigma of the other component at line 169
Dominated_OtherSigma(component, res) ==
    \E k \in 1..Len(res.components) :
        LET other_component == res.components[k] IN
        /\ IsVoigt(other_component)
        /\ other_component # component
        /\ WithinOneSigma(res.params[component].center,
                          res.params[other_component].center,
                          res.params[other_component].sigma)
        /\ res.params[component].height < res.params[other_component].height

\* lines 159-174: some other peak component is within one sigma and taller
Dominated(component, res) ==
    \E k \in 1..Len(res.components) :
        LET other_component == res.components[k] IN
        /\ IsVoigt(other_component)
        /\ other_component # component
        /\ WithinOneSigma(res.params[component].center,
                          res.params[other_component].center,
                          res.params[component].sigma)
        /\ res.params[component].height < res.params[other_component].height

\* lines 176-185 without the test of line 183
FailsRequirements_NoMinSigma(component, res) ==
    LET height_value == res.params[component].height
        center_value == res.params[component].center
        sigma_value == res.params[component].sigma
    IN  \/ height_value < min_peak_height
        \/ center_value < peak_seg.min
        \/ center_value > peak_seg.max
        \/ 10 * sigma_value > MaxSigmaScaleTenths * (MaxOf(seg_df) - MinOf(seg_df))

\* lines 176-185 with <= for < at line 177
FailsRequirements_HeightInclusive(component, res) ==
    LET height_value == res.params[component].height
        center_value == res.params[component].center
        sigma_value == res.params[component].sigma
    IN  \/ height_value <= min_peak_height
        \/ center_value < peak_seg.min
        \/ center_value > peak_seg.max
        \/ 10 * sigma_value > MaxSigmaScaleTenths * (MaxOf(seg_df) - MinOf(seg_df))
        \/ sigma_value < min_sigma

\* lines 176-185: requirements about the height, center location, and sigma
FailsRequirements(component, res) ==
    LET height_value == res.params[component].height
        center_value == res.params[component].center
        sigma_value == res.params[component].sigma
    IN  \/ height_value < min_peak_height
        \/ center_value < peak_seg.min
        \/ center_value > peak_seg.max
        \/ 10 * sigma_value > MaxSigmaScaleTenths * (MaxOf(seg_df) - MinOf(seg_df))
        \/ sigma_value < min_sigma

\* lines 157-186 keeping a component of a converged fit only
IsValid_OnlyConverged(component, res) ==
    res.success /\ ~Dominated(component, res) /\ ~FailsRequirements(component, res)

\* lines 157-186: is_valid at the end of the body of the for loop
IsValid(component, res) ==
    ~Dominated(component, res) /\ ~FailsRequirements(component, res)

\* lines 149-187: the for loop appends to the list valid_components refers to
RECURSIVE AppendValid(_, _, _)
AppendValid(components, res, list) ==
    IF components = <<>> THEN list
    ELSE LET component == Head(components) IN
         IF ~IsVoigt(component)
         THEN AppendValid(Tail(components), res, Append(list, component))
         ELSE IF IsValid(component, res)
              THEN AppendValid(Tail(components), res, Append(list, component))
              ELSE AppendValid(Tail(components), res, list)

\* line 148 copying the list: last_valid_components = list(valid_components)
BindLastValid_Copy(h, ref) == [heap |-> Append(h, h[ref]), ref |-> Len(h) + 1]

\* line 148: last_valid_components = valid_components binds the name to the
\* list object valid_components refers to; no list is created
BindLastValid(h, ref) == [heap |-> h, ref |-> ref]

\* line 147: the condition of the while loop
PruningContinues ==
    IF last_valid_components = None THEN TRUE
    ELSE heap[valid_components] # heap[last_valid_components]

\* line 189 looping over valid_components instead of valid_components[1:]
NewModel_FromFirst(list) == <<list[1]>> \o list

\* lines 188-190: the components of new_model, in order
NewModel(list) == <<list[1]>> \o Tail(list)

\* the while loop of line 147 is left to run at most this many times
MaxPasses == MaxSegPeaks + 2

\* -------------------------------------------- ControlledProcessAsync
\* Python's None as a queue item: a value no user input produces
NoneCommand == "None"

\* str.strip of the one character read, line 85
Strip(ch) == IF ch \in {" ", "\n", "\t"} THEN "" ELSE ch

\* str.lower, line 100
Lower(s) ==
    CASE s = "Q" -> "q"
      [] s = "C" -> "c"
      [] s = "QUIT" -> "quit"
      [] s = "CHECK" -> "check"
      [] OTHER -> s

\* line 100 with "q" missing from the tuple
IsQuit_OnlyWord(c) == Lower(c) \in {"quit"}

\* line 100 with "c" in the tuple of the quit commands
IsQuit_AlsoC(c) == Lower(c) \in {"q", "quit", "c"}

\* line 100
IsQuit(c) == Lower(c) \in {"q", "quit"}

\* line 102 with every command that is not a quit command taken as a check
IsCheck_AllOthers(c) == Lower(c) \notin {"q", "quit"}

\* line 102
IsCheck(c) == Lower(c) \in {"c", "check"}

\* the counter of the test's run_task stops at 5
CounterLimit == 5

TaskNames == {"add_user_input", "handle_control_commands",
              "print_still_alive", "run_task"}

\* before line 56 there is no task
NoTasks == [t \in TaskNames |-> "none"]

\* a task that finished, by returning or by an exception of its coroutine
Finished(status) == status \in {"done", "raised"}

\* line 65 left out: the task goes on
Cancel_NoEffect(status) == status

\* line 65: task.cancel() of a task that has not finished makes the event
\* loop throw CancelledError into it where it waits (or before its first
\* step); no coroutine of the class catches it, so no more of its code runs
Cancel(status) == IF Finished(status) THEN status ELSE "cancelled"

\* line 62 with the loop also ending when run_task has finished
RunLoopContinues_WhileTaskRuns == alive /\ ~Finished(tasks.run_task)

\* line 62: the condition of the while loop
RunLoopContinues == alive

\* lines 81, 91, 96 and test line 24: the loop condition of a task,
\* evaluated with the value a of alive
LoopOrReturn(a, waiting) == IF a THEN waiting ELSE "done"

\* test lines 25-26
Count(n) == IF n < CounterLimit THEN n + 1 ELSE n

\* line 146 as a mutable default argument would behave: the list of the
\* call before is used again
NewLists_KeptFromLastCall(h) == h

\* line 146 in a new call: valid_components = [] makes a new empty list, and
\* the lists of the call before are not reachable from the new frame
NewLists(h) == <<<<>>>>

\* ------------------------------------------------- get_raw_file_name
\* bytes.decode() of line 25 and the decoding of open(..., "r"), line 21
CharOf(b) ==
    CASE b = 97 -> "a"
      [] b = 44 -> ","
      [] b = 10 -> "\n"
      [] b = 13 -> "\r"

Decode(bs) == [i \in 1..Len(bs) |-> CharOf(bs[i])]

\* open(..., "r") of line 21 reads with universal newlines: a carriage
\* return, with or without a line feed after it, is read as one line feed
RECURSIVE Translate(_)
Translate(bs) ==
    IF bs = <<>> THEN <<>>
    ELSE IF bs[1] = 13
         THEN IF Len(bs) >= 2 /\ bs[2] = 10
              THEN <<10>> \o Translate(SubSeq(bs, 3, Len(bs)))
              ELSE <<10>> \o Translate(Tail(bs))
         ELSE <<bs[1]>> \o Translate(Tail(bs))

\* the position after readline() from position pos: past the next line
\* feed, or the end of the source when there is none
ReadLineEnd(bs, pos) ==
    IF \E i \in (pos + 1)..Len(bs) : bs[i] = 10
    THEN MinOf({i \in (pos + 1)..Len(bs) : bs[i] = 10})
    ELSE Len(bs)

\* readline() from position pos: the line with its terminator, empty at
\* the end of the source
ReadLine(bs, pos) == SubSeq(bs, pos + 1, ReadLineEnd(bs, pos))

\* str.split(",") of line 33
RECURSIVE Split(_)
Split(s) ==
    IF \E i \in 1..Len(s) : s[i] = ","
    THEN LET i == MinOf({j \in 1..Len(s) : s[j] = ","})
         IN  <<SubSeq(s, 1, i - 1)>> \o Split(SubSeq(s, i + 1, Len(s)))
    ELSE <<s>>

\* line 33 taking [0], the field before the first comma
RawFileNameOf_FirstField(line) == Split(line)[1]

\* line 33: line_2.split(",")[-1]
RawFileNameOf(line) == Split(line)[Len(Split(line))]

\* what the source gives to readline: the file as open(..., "r") reads it,
\* line 21, or the bytes of the byte source
SourceBytes(kind, bs) == IF kind = "path" THEN Translate(bs) ELSE bs

\* lines 21-25: the position after the first readline
FirstLineEnd(kind, bs, pos) == ReadLineEnd(SourceBytes(kind, bs), pos)

\* lines 22 and 25: the second readline, decoded
SecondLine(kind, bs, pos) ==
    Decode(ReadLine(SourceBytes(kind, bs), FirstLineEnd(kind, bs, pos)))

\* ------------------------------------- XRDAnalysisStreamProcessor
\* a row of a table: key is the ID of the parent row, item tells the rows
\* of one parent apart
Row(table, key, item) == [table |-> table, key |-> key, item |-> item]

\* session.commit(): the rows added to the session become rows of the
\* database
Commit(rows, added) == rows \cup added

\* line 71: pd.read_csv reads the handle from where it stands, leaves out
\* the first skiprows lines it reads and makes one row of every other line;
\* a row is named by the number of its line in the file
read_csv(n, pos, skiprows) ==
    LET first == pos + skiprows
    IN  [i \in 1..(IF n > first THEN n - first ELSE 0) |-> first + i]

\* the exceptions the calls of add_datafile_to_db raise: the commit of a
\* DataSet whose names are in the table (sql_tables.py lines 18-19), the
\* checks of get_peak_segments, the optimizer of get_segment_peak_fit
Exceptions == {"IntegrityError", "ValueError", "TypeError"}

\* line 160 written as except ValueError
Caught_OnlyValueError(e) == e = "ValueError"

\* line 160: except Exception catches every exception of these classes
Caught(e) == e \in Exceptions

\* ---------------------------------------------- SensorPushCSVWriter
\* line 124 (and temperature_humidity_csv_writer.py line 91): the test that
\* chooses between the retry message and the error
RetriesLeft(i, n) == i < n

\* asyncio.Queue.get, line 80, taking the newest reading
QueueGet_Newest(q) == q[Len(q)]

\* asyncio.Queue.get, line 80: the oldest reading of the queue
QueueGet(q) == Head(q)

\* ------------------------------------------- SensorPush file names
DigitChars == <<"0", "1", "2", "3", "4", "5", "6", "7", "8", "9">>

\* the decimal digits of n, padded with zeros to width characters, as
\* strftime writes a field
RECURSIVE Digits(_, _)
Digits(n, width) ==
    IF width = 0 THEN <<>>
    ELSE Digits(n \div 10, width - 1) \o <<DigitChars[(n % 10) + 1]>>

\* the number a string of decimal digits stands for, as strptime reads a field
RECURSIVE NumberOf(_)
NumberOf(s) ==
    IF s = <<>> THEN 0
    ELSE 10 * NumberOf(SubSeq(s, 1, Len(s) - 1))
         + (CHOOSE d \in 0..9 : DigitChars[d + 1] = s[Len(s)])

\* str.split(sep) for a separator of one character
RECURSIVE SplitOn(_, _)
SplitOn(s, sep) ==
    IF \E i \in 1..Len(s) : s[i] = sep
    THEN LET i == MinOf({j \in 1..Len(s) : s[j] = sep})
         IN  <<SubSeq(s, 1, i - 1)>> \o SplitOn(SubSeq(s, i + 1, Len(s)), sep)
    ELSE <<s>>

\* sep.join(parts)
RECURSIVE Join(_, _)
Join(sep, parts) ==
    IF parts = <<>> THEN <<>>
    ELSE IF Len(parts) = 1 THEN parts[1]
    ELSE parts[1] \o <<sep>> \o Join(sep, Tail(parts))

\* a datetime is <<year, month, day, hour, minute, second, microsecond>>;
\* FILENAME_TIMESTAMP_FORMAT, writer line 26, is "%Y-%m-%d-%H-%M-%S"
strftime(t) ==
    Join("-", <<Digits(t[1], 4), Digits(t[2], 2), Digits(t[3], 2),
                Digits(t[4], 2), Digits(t[5], 2), Digits(t[6], 2)>>)

\* datetime.strptime with the same format: six fields of digits between
\* hyphens, microsecond 0
strptime(s) ==
    LET fields == SplitOn(s, "-")
    IN  <<NumberOf(fields[1]), NumberOf(fields[2]), NumberOf(fields[3]),
          NumberOf(fields[4]), NumberOf(fields[5]), NumberOf(fields[6]), 0>>

\* writer lines 85-89
CsvFileName(name, t) ==
    <<"r", "e", "a", "d", "i", "n", "g", "s", "_">> \o name \o <<"_">>
        \o strftime(t) \o <<".", "c", "s", "v">>

\* plotter line 67 taking the one part after "readings"
DevIdOf_FirstPart(parts) == parts[2]

\* plotter line 67: "_".join(filename_split[1:-1])
DevIdOf(parts) == Join("_", SubSeq(parts, 2, Len(parts) - 1))

\* plotter line 69: filename_split[-1][: -len(".csv")]
TimestampTextOf(parts) ==
    SubSeq(parts[Len(parts)], 1, Len(parts[Len(parts)]) - 4)

\* the device names of at most MaxNameLen characters: a letter, the
\* underscore, the hyphen
DeviceNames == UNION {[1..n -> {"a", "_", "-"}] : n \in 0..MaxNameLen}

\* the times of readings: ends and middles of the ranges of the fields
Timestamps ==
    {<<2024, mo, d, h, 7, s, us>> :
        mo \in {1, 12}, d \in {9, 28}, h \in {0, 23}, s \in {0, 59},
        us \in {0, 999999}}

\* ------------------------------------------------------- specifications
Inputs == <<xrd_angles, xrd_step, neighborhood_intervals, min_n_interval_separation,
            min_angle, peaks>>

FitInputs == <<peak_seg, seg_df, min_peak_height, min_sigma>>

\* no call of get_peak_segments
SegIdle ==
    /\ xrd_angles = <<>>
    /\ error = "none"
    /\ xrd_step = 10
    /\ neighborhood_intervals = 0
    /\ min_n_interval_separation = 1
    /\ min_angle = 0
    /\ peaks = <<>>
    /\ pc = "idle"
    /\ ip = 1
    /\ peak_angles_done = {}
    /\ last_peaks_in_seg = <<>>
    /\ peaks_in_seg = <<>>
    /\ peak_segments = <<>>
    /\ n_iter = 0

\* no call of get_segment_peak_fit
FitIdle ==
    /\ peak_seg = PeakSegOf(4, 1, 1)
    /\ seg_df = SegDf(peak_seg)
    /\ min_peak_height = 1
    /\ min_sigma = 1
    /\ params = <<>>
    /\ result = NoResult
    /\ heap = <<<<>>>>
    /\ valid_components = 1
    /\ last_valid_components = None
    /\ fpc = "idle"
    /\ n_pass = 0
    /\ pass_input = <<>>
    /\ n_calls = 0

\* no ControlledProcessAsync object
ProcIdle ==
    /\ update_secs = -1
    /\ alive = FALSE
    /\ control_command_queue = <<>>
    /\ tasks = NoTasks
    /\ run_loop_pc = "idle"
    /\ cmd = NoneCommand
    /\ run_task_kind = "loops"
    /\ counter = 0
    /\ checked = FALSE
    /\ on_shutdown_called = FALSE
    /\ post_run_called = FALSE
    /\ n_put = 0

\* no call of get_raw_file_name
RawIdle ==
    /\ source_kind = "other"
    /\ file_bytes = <<>>
    /\ offset = 0
    /\ raw_pc = "idle"
    /\ line_2 = <<>>
    /\ raw_file_name = <<>>
    /\ raw_error = "none"

\* no file is being processed
DbIdle ==
    /\ n_lines = 0
    /\ already_stored = FALSE
    /\ datafile_as_read = 0
    /\ xrd_df = <<>>
    /\ n_peak_segments = 0
    /\ i_segment = 0
    /\ session_new = {}
    /\ db = {}
    /\ add_pc = "idle"
    /\ exc = "none"
    /\ returned = "idle"

\* no SensorPushCSVWriter
WriterIdle ==
    /\ n_connection_retries = 1
    /\ iretry = 0
    /\ client_connected = FALSE
    /\ log = {}
    /\ read_unconnected = FALSE
    /\ sp_pc = "idle"
    /\ sp_exc = "none"
    /\ sp_alive = FALSE
    /\ enqueued = <<>>
    /\ reading_queue = <<>>
    /\ written = <<>>
    /\ n_files_written = 0
    /\ enq_pc = "none"
    /\ wr_pc = "none"

\* no file name
NameIdle ==
    /\ dev_name = <<>>
    /\ timestamp = <<>>
    /\ csv_filename = <<>>
    /\ dev_id = <<>>
    /\ parsed_timestamp = <<>>
    /\ name_pc = "idle"

SpIdle == WriterIdle /\ NameIdle

\* get_peak_segments is called, lines 39-53
Init ==
    /\ xrd_step \in Steps
    /\ xrd_angles = UniformColumn(xrd_step, NSamples)
    /\ error = "none"
    /\ neighborhood_intervals \in NeighborhoodIntervals
    /\ min_n_interval_separation \in IntervalSeparations
    /\ min_angle \in MinAngles
    /\ peaks \in CandidatePeakLists(min_n_interval_separation)
    /\ pc = "for"
    /\ ip = 1
    /\ peak_angles_done = {}
    /\ last_peaks_in_seg = <<>>
    /\ peaks_in_seg = <<>>
    /\ peak_segments = <<>>
    /\ n_iter = 0
    /\ FitIdle
    /\ ProcIdle
    /\ RawIdle
    /\ DbIdle
    /\ SpIdle

\* lines 54-56: the peak is below min_angle or already in a segment
SkipSeed ==
    /\ pc = "for"
    /\ ip <= Len(peaks)
    /\ SeedSkipped(peaks[ip])
    /\ ip' = ip + 1
    /\ UNCHANGED <<Inputs, error, pc, peak_angles_done, last_peaks_in_seg,
                   peaks_in_seg, peak_segments, n_iter, fitvars, procvars, rawvars, dbvars, spvars>>

\* lines 54-60: the peak seeds a segment
StartSegment ==
    /\ pc = "for"
    /\ ip <= Len(peaks)
    /\ ~SeedSkipped(peaks[ip])
    /\ last_peaks_in_seg' = <<>>
    /\ peaks_in_seg' = <<peaks[ip]>>
    /\ n_iter' = 0
    /\ pc' = "while"
    /\ UNCHANGED <<Inputs, error, ip, peak_angles_done, peak_segments, fitvars, procvars, rawvars, dbvars, spvars>>

\* lines 61-71: one execution of the body of the while loop
GrowSegment ==
    /\ pc = "while"
    /\ GrowthContinues
    /\ n_iter < MaxGrowIter
    /\ IF peaks_in_seg = <<>>
       THEN \* line 62: min() of an empty sequence raises ValueError
            /\ pc' = "raised"
            /\ error' = "min_of_empty"
            /\ UNCHANGED <<last_peaks_in_seg, peaks_in_seg, n_iter>>
       ELSE /\ last_peaks_in_seg' = peaks_in_seg
            /\ peaks_in_seg' = Recollect(peaks_in_seg)
            /\ n_iter' = n_iter + 1
            /\ UNCHANGED <<pc, error>>
    /\ UNCHANGED <<Inputs, ip, peak_angles_done, peak_segments, fitvars, procvars, rawvars, dbvars, spvars>>

\* lines 72-96 with lines 72-73 moved after the filter of lines 75-86
FinishSegment_ClaimsFiltered ==
    /\ pc = "while"
    /\ ~GrowthContinues
    /\ peak_angles_done' =
           peak_angles_done \cup {p[1] : p \in Range(FilteredPeaks(peaks_in_seg))}
    /\ peaks_in_seg' = FilteredPeaks(peaks_in_seg)
    /\ peak_segments' = Append(peak_segments, SegmentEntry(peaks_in_seg'))
    /\ ip' = ip + 1
    /\ pc' = "for"
    /\ UNCHANGED <<Inputs, error, last_peaks_in_seg, n_iter, fitvars, procvars, rawvars, dbvars, spvars>>

\* lines 72-96: the loop has ended; claim the peaks, filter, add the entry
FinishSegment ==
    /\ pc = "while"
    /\ ~GrowthContinues
    /\ peak_angles_done' = peak_angles_done \cup {p[1] : p \in Range(peaks_in_seg)}
    /\ peaks_in_seg' = FilteredPeaks(peaks_in_seg)
    /\ peak_segments' = Append(peak_segments, SegmentEntry(peaks_in_seg'))
    /\ ip' = ip + 1
    /\ pc' = "for"
    /\ UNCHANGED <<Inputs, error, last_peaks_in_seg, n_iter, fitvars, procvars, rawvars, dbvars, spvars>>

\* line 97
ReturnSegments ==
    /\ pc = "for"
    /\ ip > Len(peaks)
    /\ pc' = "done"
    /\ UNCHANGED <<Inputs, error, ip, peak_angles_done, last_peaks_in_seg,
                   peaks_in_seg, peak_segments, n_iter, fitvars, procvars, rawvars, dbvars, spvars>>

Next ==
    \/ SkipSeed
    \/ StartSegment
    \/ GrowSegment
    \/ FinishSegment
    \/ ReturnSegments

Spec == Init /\ [][Next]_vars

\* window_length, the default of line 14, in samples
WindowLength == 50

\* the angle columns of the signals handed to get_peak_segments: evenly
\* spaced ones, and three that are not, of which the first has rounded
\* steps that are all equal
AngleColumns ==
    {UniformColumn(step, n) : step \in Steps, n \in 0..NSamples}
    \cup {<<0, 6, 16, 22, 32>>, <<0, 4, 10>>, <<0, 10, 30, 40>>}

\* get_peak_segments is called, lines 10-17
CallInit ==
    /\ xrd_angles \in AngleColumns
    /\ xrd_step = IF Len(xrd_angles) >= 2 THEN xrd_angles[2] - xrd_angles[1] ELSE 0
    /\ error = "none"
    \* no line rejects any value a caller passes
    /\ neighborhood_intervals \in NeighborhoodIntervals \cup {-1}
    /\ min_n_interval_separation \in IntervalSeparations
    /\ min_angle \in MinAngles
    /\ peaks = <<>>
    /\ pc = "call"
    /\ ip = 1
    /\ peak_angles_done = {}
    /\ last_peaks_in_seg = <<>>
    /\ peaks_in_seg = <<>>
    /\ peak_segments = <<>>
    /\ n_iter = 0
    /\ FitIdle
    /\ ProcIdle
    /\ RawIdle
    /\ DbIdle
    /\ SpIdle

\* lines 40-41 with utils.py lines 52-64: the interval size, or ValueError
GetIntervalSize ==
    /\ pc = "call"
    /\ IF IntervalSizeError(xrd_angles) = "none"
       THEN /\ pc' = "find_peaks"
            /\ UNCHANGED error
       ELSE /\ pc' = "raised"
            /\ error' = IntervalSizeError(xrd_angles)
    /\ UNCHANGED <<Inputs, ip, peak_angles_done, last_peaks_in_seg, peaks_in_seg,
                   peak_segments, n_iter, fitvars, procvars, rawvars, dbvars, spvars>>

\* lines 43-53: the detector returns the candidate peaks
FindPeaks ==
    /\ pc = "find_peaks"
    /\ peaks' \in CandidatePeakLists(min_n_interval_separation)
    /\ pc' = "for"
    /\ UNCHANGED <<xrd_angles, xrd_step, error, neighborhood_intervals,
                   min_n_interval_separation, min_angle, ip, peak_angles_done,
                   last_peaks_in_seg, peaks_in_seg, peak_segments, n_iter,
                   fitvars, procvars, rawvars, dbvars, spvars>>

CallNext ==
    \/ GetIntervalSize
    \/ FindPeaks
    \/ SkipSeed
    \/ StartSegment
    \/ GrowSegment
    \/ FinishSegment
    \/ ReturnSegments

CallSpec == CallInit /\ [][CallNext]_vars

\* get_segment_peak_fit is called, lines 100-102
FitInit ==
    /\ SegIdle
    /\ \E a1 \in SegFirstAngles, k \in 1..MaxSegPeaks, h \in SegHalfNeighborhoods :
           peak_seg = PeakSegOf(a1, k, h)
    /\ seg_df = SegDf(peak_seg)
    /\ min_peak_height \in {1, 2}
    /\ min_sigma \in {1, 2}
    /\ params = <<>>
    /\ result = NoResult
    /\ heap = <<<<>>>>
    /\ valid_components = 1
    /\ last_valid_components = None
    /\ fpc = "fit"
    /\ n_pass = 0
    /\ pass_input = <<>>
    /\ n_calls = 1
    /\ ProcIdle
    /\ RawIdle
    /\ DbIdle
    /\ SpIdle

\* lines 123-146: build the model, fit it, create the empty list
InitialFit ==
    /\ fpc = "fit"
    /\ params' = make_params(InitialModel(peak_seg), make_params_kwargs(peak_seg))
    /\ \E fitted \in FitOutcomes(InitialModel(peak_seg)), status \in FitStatuses :
           result' = FitResult(InitialModel(peak_seg), fitted, status)
    /\ fpc' = "while"
    /\ UNCHANGED <<procvars, rawvars, dbvars, spvars, segvars, FitInputs, n_calls, heap, valid_components,
                   last_valid_components, n_pass, pass_input>>

\* lines 147-187: the loop goes on; one pass over the components of the model
PruningPass ==
    /\ fpc = "while"
    /\ PruningContinues
    /\ n_pass < MaxPasses
    /\ LET bound == BindLastValid(heap, valid_components) IN
       /\ last_valid_components' = bound.ref
       /\ heap' = [bound.heap EXCEPT ![valid_components] =
                       AppendValid(result.components, result, @)]
    /\ pass_input' = result.components
    /\ n_pass' = n_pass + 1
    /\ fpc' = "refit"
    /\ UNCHANGED <<procvars, rawvars, dbvars, spvars, segvars, FitInputs, n_calls, params, result, valid_components>>

\* lines 188-191: fit the model of the valid components.  The fit is a
\* function of the model (same data, same initial params): the same components
\* give the same values again, other components any values.
Refit ==
    /\ fpc = "refit"
    /\ LET new_model == NewModel(heap[valid_components]) IN
       IF new_model = result.components
       THEN result' = result
       ELSE \E fitted \in FitOutcomes(new_model), status \in FitStatuses :
                result' = FitResult(new_model, fitted, status)
    /\ fpc' = "while"
    /\ UNCHANGED <<procvars, rawvars, dbvars, spvars, segvars, FitInputs, n_calls, params, heap, valid_components,
                   last_valid_components, n_pass, pass_input>>

\* line 192: the loop has ended
ReturnResult ==
    /\ fpc = "while"
    /\ ~PruningContinues
    /\ fpc' = "returned"
    /\ UNCHANGED <<procvars, rawvars, dbvars, spvars, segvars, FitInputs, n_calls, params, result, heap, valid_components,
                   last_valid_components, n_pass, pass_input>>

\* xrd_analysis_stream_processor.py lines 80 and 98: the caller's loop calls
\* get_segment_peak_fit for another segment of the same signal, with the
\* same thresholds; the locals of the new call are those of lines 100-146
NextSegmentFit ==
    /\ fpc = "returned"
    /\ n_calls < MaxCalls
    /\ \E a1 \in SegFirstAngles, k \in 1..MaxSegPeaks, h \in SegHalfNeighborhoods :
           peak_seg' = PeakSegOf(a1, k, h)
    /\ seg_df' = SegDf(peak_seg')
    /\ params' = <<>>
    /\ result' = NoResult
    /\ heap' = NewLists(heap)
    /\ valid_components' = 1
    /\ last_valid_components' = None
    /\ fpc' = "fit"
    /\ n_pass' = 0
    /\ pass_input' = <<>>
    /\ n_calls' = n_calls + 1
    /\ UNCHANGED <<procvars, rawvars, dbvars, spvars, segvars, min_peak_height, min_sigma>>

FitNext ==
    \/ InitialFit
    \/ PruningPass
    \/ Refit
    \/ ReturnResult
    \/ NextSegmentFit

FitSpec == FitInit /\ [][FitNext]_vars

\* a ControlledProcessAsync is constructed, lines 34-46 and test lines 16-21
ProcInit ==
    /\ SegIdle
    /\ FitIdle
    /\ RawIdle
    /\ DbIdle
    /\ SpIdle
    /\ update_secs \in {-1, 5}
    /\ alive = FALSE
    /\ control_command_queue = <<>>
    /\ tasks = NoTasks
    /\ run_loop_pc = "constructed"
    /\ cmd = NoneCommand
    \* the subclasses' run_task: the loop of the test's subclass, one that
    \* returns, and one that raises as the base class's does (line 126)
    /\ run_task_kind \in {"loops", "returns", "raises"}
    /\ counter = 0
    /\ checked = FALSE
    /\ on_shutdown_called = FALSE
    /\ post_run_called = FALSE
    /\ n_put = 0

\* the variables no method of the class assigns
ProcInputs == <<update_secs, run_task_kind>>

\* lines 53-63: run_loop up to its first sleep
StartRunLoop ==
    /\ run_loop_pc = "constructed"
    /\ alive' = TRUE
    /\ control_command_queue' = <<>>
    /\ tasks' = [t \in TaskNames |-> "created"]
    /\ run_loop_pc' = "sleeping"
    /\ UNCHANGED <<segvars, fitvars, rawvars, dbvars, spvars, ProcInputs, cmd, counter, checked,
                   on_shutdown_called, post_run_called, n_put>>

\* lines 62-65: run_loop wakes from the sleep of line 63; when alive is False
\* it cancels every task and enters _post_run without yielding
RunLoopWake ==
    /\ run_loop_pc = "sleeping"
    /\ IF RunLoopContinues
       THEN UNCHANGED <<tasks, run_loop_pc>>
       ELSE /\ tasks' = [t \in TaskNames |-> Cancel(tasks[t])]
            /\ run_loop_pc' = "post_run"
    /\ UNCHANGED <<segvars, fitvars, rawvars, dbvars, spvars, ProcInputs, alive, control_command_queue,
                   cmd, counter, checked, on_shutdown_called, post_run_called,
                   n_put>>

\* line 66 with lines 106-112, overridden at test lines 35-36
PostRun ==
    /\ run_loop_pc = "post_run"
    /\ post_run_called' = TRUE
    /\ run_loop_pc' = "returned"
    /\ UNCHANGED <<segvars, fitvars, rawvars, dbvars, spvars, ProcInputs, alive, control_command_queue,
                   tasks, cmd, counter, checked, on_shutdown_called, n_put>>

\* lines 68-73 called by other code than the command handler, once run_loop
\* has started (line 53 undoes an earlier call)
DirectShutdown ==
    /\ run_loop_pc \in {"sleeping", "post_run", "returned"}
    /\ alive' = FALSE
    /\ on_shutdown_called' = TRUE
    /\ UNCHANGED <<segvars, fitvars, rawvars, dbvars, spvars, ProcInputs, control_command_queue, tasks,
                   run_loop_pc, cmd, counter, checked, post_run_called, n_put>>

\* test lines 47, 48, 53: another coroutine puts a command on the queue
PutCommand ==
    /\ run_loop_pc \in {"sleeping", "post_run", "returned"}
    /\ n_put < MaxCommands
    /\ \E c \in {"c", "check", "q", "quit", "Q", NoneCommand} :
           control_command_queue' = Append(control_command_queue, c)
    /\ n_put' = n_put + 1
    /\ UNCHANGED <<segvars, fitvars, rawvars, dbvars, spvars, ProcInputs, alive, tasks, run_loop_pc, cmd,
                   counter, checked, on_shutdown_called, post_run_called>>

\* lines 77-82: the first step of _add_user_input
StartAddUserInput ==
    /\ tasks.add_user_input = "created"
    /\ tasks' = [tasks EXCEPT !.add_user_input = LoopOrReturn(alive, "sleeping")]
    /\ UNCHANGED <<segvars, fitvars, rawvars, dbvars, spvars, ProcInputs, alive, control_command_queue,
                   run_loop_pc, cmd, counter, checked, on_shutdown_called,
                   post_run_called, n_put>>

\* lines 83-85 and 81: after the sleep, put the character read if stdin is
\* readable (the queue is unbounded, put does not wait), then test alive
WakeAddUserInput ==
    /\ tasks.add_user_input = "sleeping"
    /\ \/ UNCHANGED <<control_command_queue, n_put>>
       \/ /\ n_put < MaxCommands
          \* the character waiting on stdin when select reports it readable
          /\ \E ch \in {"q", "c", "\n"} :
                 control_command_queue' = Append(control_command_queue, Strip(ch))
          /\ n_put' = n_put + 1
    /\ tasks' = [tasks EXCEPT !.add_user_input = LoopOrReturn(alive, "sleeping")]
    /\ UNCHANGED <<segvars, fitvars, rawvars, dbvars, spvars, ProcInputs, alive, run_loop_pc, cmd, counter,
                   checked, on_shutdown_called, post_run_called>>

\* lines 95-98: the first step of _handle_control_commands
StartHandleControlCommands ==
    /\ tasks.handle_control_commands = "created"
    /\ tasks' = [tasks EXCEPT
                   !.handle_control_commands = LoopOrReturn(alive, "getting")]
    /\ UNCHANGED <<segvars, fitvars, rawvars, dbvars, spvars, ProcInputs, alive, control_command_queue,
                   run_loop_pc, cmd, counter, checked, on_shutdown_called,
                   post_run_called, n_put>>

\* lines 98-104 and 96: the handler gets the oldest command of the queue,
\* acts on it and tests alive; shutdown() is lines 72-73 with test line 33,
\* _on_check is test line 30
HandleCommand ==
    /\ tasks.handle_control_commands = "getting"
    /\ control_command_queue # <<>>
    /\ cmd' = Head(control_command_queue)
    /\ control_command_queue' = Tail(control_command_queue)
    /\ IF cmd' # NoneCommand /\ IsQuit(cmd')
       THEN /\ alive' = FALSE
            /\ on_shutdown_called' = TRUE
            /\ UNCHANGED checked
       ELSE IF cmd' # NoneCommand /\ IsCheck(cmd')
       THEN /\ checked' = TRUE
            /\ UNCHANGED <<alive, on_shutdown_called>>
       ELSE UNCHANGED <<alive, on_shutdown_called, checked>>
    /\ tasks' = [tasks EXCEPT
                   !.handle_control_commands = LoopOrReturn(alive', "getting")]
    /\ UNCHANGED <<segvars, fitvars, rawvars, dbvars, spvars, ProcInputs, run_loop_pc, counter,
                   post_run_called, n_put>>

\* lines 87-92: the first step of _print_still_alive
StartPrintStillAlive ==
    /\ tasks.print_still_alive = "created"
    /\ tasks' = [tasks EXCEPT
                   !.print_still_alive =
                       IF update_secs = -1 THEN "done"
                       ELSE LoopOrReturn(alive, "sleeping")]
    /\ UNCHANGED <<segvars, fitvars, rawvars, dbvars, spvars, ProcInputs, alive, control_command_queue,
                   run_loop_pc, cmd, counter, checked, on_shutdown_called,
                   post_run_called, n_put>>

\* lines 93 and 91: after the sleep, log and test alive
WakePrintStillAlive ==
    /\ tasks.print_still_alive = "sleeping"
    /\ tasks' = [tasks EXCEPT !.print_still_alive = LoopOrReturn(alive, "sleeping")]
    /\ UNCHANGED <<segvars, fitvars, rawvars, dbvars, spvars, ProcInputs, alive, control_command_queue,
                   run_loop_pc, cmd, counter, checked, on_shutdown_called,
                   post_run_called, n_put>>

\* the first step of run_task: test lines 23-27 for the loop, line 126 for
\* the one that raises
StartRunTask ==
    /\ tasks.run_task = "created"
    /\ IF run_task_kind = "raises"
       THEN /\ tasks' = [tasks EXCEPT !.run_task = "raised"]
            /\ UNCHANGED counter
       ELSE IF run_task_kind = "returns"
       THEN /\ tasks' = [tasks EXCEPT !.run_task = "done"]
            /\ UNCHANGED counter
       ELSE /\ tasks' = [tasks EXCEPT !.run_task = LoopOrReturn(alive, "sleeping")]
            /\ counter' = IF alive THEN Count(counter) ELSE counter
    /\ UNCHANGED <<segvars, fitvars, rawvars, dbvars, spvars, ProcInputs, alive, control_command_queue,
                   run_loop_pc, cmd, checked, on_shutdown_called,
                   post_run_called, n_put>>

\* test lines 24-27: after the sleep the loop tests alive and counts
WakeRunTask ==
    /\ tasks.run_task = "sleeping"
    /\ tasks' = [tasks EXCEPT !.run_task = LoopOrReturn(alive, "sleeping")]
    /\ counter' = IF alive THEN Count(counter) ELSE counter
    /\ UNCHANGED <<segvars, fitvars, rawvars, dbvars, spvars, ProcInputs, alive, control_command_queue,
                   run_loop_pc, cmd, checked, on_shutdown_called,
                   post_run_called, n_put>>

ProcNext ==
    \/ StartRunLoop
    \/ RunLoopWake
    \/ PostRun
    \/ DirectShutdown
    \/ PutCommand
    \/ StartAddUserInput
    \/ WakeAddUserInput
    \/ StartHandleControlCommands
    \/ HandleCommand
    \/ StartPrintStillAlive
    \/ WakePrintStillAlive
    \/ StartRunTask
    \/ WakeRunTask

ProcSpec == ProcInit /\ [][ProcNext]_vars

\* the event loop runs a coroutine whose sleep has ended: run_loop wakes
\* within a second of every sleep and _post_run, once entered, runs
ProcLiveSpec ==
    /\ ProcSpec
    /\ WF_vars(RunLoopWake)
    /\ WF_vars(PostRun)

\* ---- get_raw_file_name on one source
\* get_raw_file_name is called with a path, with a BytesIO as
\* add_datafile_to_db makes it (xrd_analysis_stream_processor.py line 62,
\* position 0), or with an object that is neither
RawInit ==
    /\ SegIdle
    /\ FitIdle
    /\ ProcIdle
    /\ DbIdle
    /\ SpIdle
    \* the kinds of argument of lines 18-26: a str or pathlib.Path, an object
    \* with a readline method returning bytes, anything else
    /\ source_kind \in {"path", "bytes", "other"}
    \* files of at most MaxFileLen bytes out of "a", ",", line feed and
    \* carriage return
    /\ file_bytes \in (IF source_kind = "other" THEN {<<>>}
                       ELSE UNION {[1..n -> {97, 44, 10, 13}] : n \in 0..MaxFileLen})
    /\ offset = 0
    /\ raw_pc = "call"
    /\ line_2 = <<>>
    /\ raw_file_name = <<>>
    /\ raw_error = "none"

\* lines 18-34
GetRawFileName ==
    /\ raw_pc = "call"
    /\ IF source_kind = "other"
       THEN /\ raw_pc' = "raised"
            /\ raw_error' = "ValueError"
            /\ UNCHANGED <<offset, line_2, raw_file_name>>
       ELSE /\ line_2' = SecondLine(source_kind, file_bytes, offset)
            /\ raw_file_name' = RawFileNameOf(line_2')
            /\ offset' = IF source_kind = "bytes"
                         THEN ReadLineEnd(SourceBytes(source_kind, file_bytes),
                                  FirstLineEnd(source_kind, file_bytes, offset))
                         ELSE offset
            /\ raw_pc' = "returned"
            /\ UNCHANGED raw_error
    /\ UNCHANGED <<segvars, fitvars, procvars, dbvars, spvars, source_kind, file_bytes>>

RawNext == GetRawFileName

RawSpec == RawInit /\ [][RawNext]_vars

\* ---- _process_downloaded_data_file on one file
\* lines 151-159 and 62: a file of n_lines lines is handed over; the
\* database has no row of it, or has its DataSet row from an earlier run
DbInit ==
    /\ SegIdle
    /\ FitIdle
    /\ ProcIdle
    /\ RawIdle
    /\ SpIdle
    /\ n_lines \in 0..MaxLines
    /\ already_stored \in BOOLEAN
    /\ datafile_as_read = 0
    /\ xrd_df = <<>>
    /\ n_peak_segments = 0
    /\ i_segment = 0
    /\ session_new = {}
    /\ db = {}
    /\ add_pc = "dataset"
    /\ exc = "none"
    /\ returned = "running"

DbInputs == <<n_lines, already_stored>>

\* lines 62-69: get_raw_file_name reads two lines of the BytesIO, the
\* DataSet row is added and committed; the commit raises when the names
\* are in the table already
AddDataSet ==
    /\ add_pc = "dataset"
    \* utils.py lines 24-25: two calls of readline move the stream on
    /\ datafile_as_read' = MinOf({n_lines, datafile_as_read + 2})
    /\ IF already_stored
       THEN /\ session_new' = session_new \cup {Row("DataSet", 0, 0)}
            /\ add_pc' = "raised"
            /\ exc' = "IntegrityError"
            /\ UNCHANGED db
       ELSE /\ db' = Commit(db, session_new \cup {Row("DataSet", 0, 0)})
            /\ session_new' = {}
            /\ add_pc' = "datapoints"
            /\ UNCHANGED exc
    /\ UNCHANGED <<segvars, fitvars, procvars, rawvars, spvars, DbInputs, xrd_df,
                   n_peak_segments, i_segment, returned>>

\* lines 71-77: read the rows with skiprows=2, add a DataPoint for each,
\* commit
AddDataPoints ==
    /\ add_pc = "datapoints"
    /\ xrd_df' = read_csv(n_lines, datafile_as_read, 2)
    /\ datafile_as_read' = n_lines
    /\ db' = Commit(db, session_new \cup
                        {Row("DataPoint", 0, xrd_df'[i]) : i \in 1..Len(xrd_df')})
    /\ session_new' = {}
    /\ add_pc' = "get_peak_segments"
    /\ UNCHANGED <<segvars, fitvars, procvars, rawvars, spvars, DbInputs, n_peak_segments,
                   i_segment, exc, returned>>

\* line 79: get_peak_segments raises ValueError for a signal of fewer than
\* two rows and for uneven angles, or returns the segments
GetPeakSegments ==
    /\ add_pc = "get_peak_segments"
    /\ \/ /\ add_pc' = "raised"
          /\ exc' = "ValueError"
          /\ UNCHANGED n_peak_segments
       \/ /\ Len(xrd_df) >= 2
          \* lines 43-50 of analysis.py: peaks are inner samples, no two
          \* adjacent, so n rows hold at most (n - 1) \div 2 peaks, and segments
          /\ n_peak_segments' \in
                 0..(IF Len(xrd_df) >= 3 THEN (Len(xrd_df) - 1) \div 2 ELSE 0)
          /\ add_pc' = "segment"
          /\ UNCHANGED exc
    /\ UNCHANGED <<segvars, fitvars, procvars, rawvars, spvars, DbInputs, datafile_as_read,
                   xrd_df, i_segment, session_new, db, returned>>

\* lines 80-89: the DataSegment row of the next segment is added and
\* committed
AddSegment ==
    /\ add_pc = "segment"
    /\ i_segment < n_peak_segments
    /\ db' = Commit(db, session_new \cup {Row("DataSegment", 0, i_segment + 1)})
    /\ session_new' = {}
    /\ add_pc' = "candidate_peaks"
    /\ UNCHANGED <<segvars, fitvars, procvars, rawvars, spvars, DbInputs, datafile_as_read,
                   xrd_df, n_peak_segments, i_segment, exc, returned>>

\* lines 91-96: the CandidatePeak rows of the segment are added and
\* committed
AddCandidatePeaks ==
    /\ add_pc = "candidate_peaks"
    /\ \E n \in {1, 2} :
           db' = Commit(db, session_new \cup
                     {Row("CandidatePeak", i_segment + 1, i) : i \in 1..n})
    /\ session_new' = {}
    /\ add_pc' = "fit"
    /\ UNCHANGED <<segvars, fitvars, procvars, rawvars, spvars, DbInputs, datafile_as_read,
                   xrd_df, n_peak_segments, i_segment, exc, returned>>

\* lines 98-149: get_segment_peak_fit raises, or returns a result whose
\* SegmentFit, Background and FittedPeak rows are added and committed
FitSegment ==
    /\ add_pc = "fit"
    /\ \/ /\ add_pc' = "raised"
          /\ exc' = "TypeError"
          /\ UNCHANGED <<db, session_new, i_segment>>
       \/ /\ \E n \in 0..Cardinality({r \in db : /\ r.table = "CandidatePeak"
                                                /\ r.key = i_segment + 1}) :
                 db' = Commit(db, session_new \cup
                           {Row("SegmentFit", i_segment + 1, 0),
                            Row("Background", i_segment + 1, 0)} \cup
                           {Row("FittedPeak", i_segment + 1, i) : i \in 1..n})
          /\ session_new' = {}
          /\ i_segment' = i_segment + 1
          /\ add_pc' = "segment"
          /\ UNCHANGED exc
    /\ UNCHANGED <<segvars, fitvars, procvars, rawvars, spvars, DbInputs, datafile_as_read,
                   xrd_df, n_peak_segments, returned>>

\* lines 160-161: the exception add_datafile_to_db raised is returned
ReturnException ==
    /\ add_pc = "raised"
    /\ returned = "running"
    /\ returned' = IF Caught(exc) THEN exc ELSE "propagated"
    /\ UNCHANGED <<segvars, fitvars, procvars, rawvars, spvars, DbInputs, datafile_as_read,
                   xrd_df, n_peak_segments, i_segment, session_new, db, add_pc,
                   exc>>

\* lines 80 and 162: the loop over the segments has ended, None is returned
ReturnNone ==
    /\ add_pc = "segment"
    /\ i_segment = n_peak_segments
    /\ add_pc' = "added"
    /\ returned' = "None"
    /\ UNCHANGED <<segvars, fitvars, procvars, rawvars, spvars, DbInputs, datafile_as_read,
                   xrd_df, n_peak_segments, i_segment, session_new, db, exc>>

DbNext ==
    \/ AddDataSet
    \/ AddDataPoints
    \/ GetPeakSegments
    \/ AddSegment
    \/ AddCandidatePeaks
    \/ FitSegment
    \/ ReturnException
    \/ ReturnNone

DbSpec == DbInit /\ [][DbNext]_vars

\* ---- SensorPushCSVWriter.run_task
\* lines 50-53 and 115-118: run_loop has set alive and started run_task,
\* which has made the queue and the client; n_connection_retries is a
\* positive_int (argument_parser.py line 36)
WriterInit ==
    /\ SegIdle
    /\ FitIdle
    /\ ProcIdle
    /\ RawIdle
    /\ DbIdle
    /\ NameIdle
    /\ n_connection_retries \in 1..MaxRetries
    /\ iretry = 0
    /\ client_connected = FALSE
    /\ log = {}
    /\ read_unconnected = FALSE
    /\ sp_pc = "connecting"
    /\ sp_exc = "none"
    /\ sp_alive = TRUE
    /\ enqueued = <<>>
    /\ reading_queue = <<>>
    /\ written = <<>>
    /\ n_files_written = 0
    /\ enq_pc = "none"
    /\ wr_pc = "none"

OtherThanWriter == <<segvars, fitvars, procvars, rawvars, dbvars, dev_name, timestamp,
                     csv_filename, dev_id, parsed_timestamp, name_pc>>

\* lines 119-135: one connection attempt.  It succeeds and the loop is left
\* (line 122), or it fails with BleakDeviceNotFoundError and line 124
\* chooses between the retry message and the error that is raised again
ConnectAttempt ==
    /\ sp_pc = "connecting"
    /\ iretry < n_connection_retries
    /\ \/ /\ client_connected' = TRUE
          /\ sp_pc' = "after_loop"
          /\ UNCHANGED <<iretry, log, sp_exc>>
       \/ IF RetriesLeft(iretry, n_connection_retries)
          THEN /\ log' = log \cup {"retrying"}
               /\ iretry' = iretry + 1
               /\ UNCHANGED <<client_connected, sp_pc, sp_exc>>
          ELSE /\ log' = log \cup {"failed_after_retries"}
               /\ sp_pc' = "raised"
               /\ sp_exc' = "BleakDeviceNotFoundError"
               /\ UNCHANGED <<client_connected, iretry>>
    /\ UNCHANGED <<OtherThanWriter, n_connection_retries, read_unconnected,
                   sp_alive, enqueued, reading_queue, written, n_files_written,
                   enq_pc, wr_pc>>

\* lines 136-140 and 54-57: after the loop, left by break or run to its end,
\* "Connected!" is logged and the battery is read; a read on a client that
\* is not connected raises BleakError; else the two coroutines are made
AfterConnectLoop ==
    /\ \/ sp_pc = "after_loop"
       \/ sp_pc = "connecting" /\ iretry = n_connection_retries
    /\ log' = log \cup {"connected"}
    /\ IF client_connected
       THEN /\ sp_pc' = "gather"
            /\ enq_pc' = "created"
            /\ wr_pc' = "created"
            /\ UNCHANGED <<read_unconnected, sp_exc>>
       ELSE /\ read_unconnected' = TRUE
            /\ sp_pc' = "raised"
            /\ sp_exc' = "BleakError"
            /\ UNCHANGED <<enq_pc, wr_pc>>
    /\ UNCHANGED <<OtherThanWriter, n_connection_retries, iretry, client_connected,
                   sp_alive, enqueued, reading_queue, written, n_files_written>>

\* lines 103-106: the first step of _enqueue_readings
StartEnqueueReadings ==
    /\ enq_pc = "created"
    /\ enq_pc' = LoopOrReturn(sp_alive, "reading")
    /\ UNCHANGED <<OtherThanWriter, n_connection_retries, iretry, client_connected,
                   log, read_unconnected, sp_pc, sp_exc, sp_alive, enqueued,
                   reading_queue, written, n_files_written, wr_pc>>

\* lines 106-111: the sensor has answered; the reading, named by its place
\* in the order of the readings, is put on the queue (which has no bound,
\* put does not wait) and the coroutine sleeps
EnqueueReading ==
    /\ enq_pc = "reading"
    /\ Len(enqueued) < MaxReadings
    /\ enqueued' = Append(enqueued, Len(enqueued) + 1)
    /\ reading_queue' = Append(reading_queue, Len(enqueued) + 1)
    /\ enq_pc' = "sleeping"
    /\ UNCHANGED <<OtherThanWriter, n_connection_retries, iretry, client_connected,
                   log, read_unconnected, sp_pc, sp_exc, sp_alive, written,
                   n_files_written, wr_pc>>

\* lines 111 and 104-106: after the sleep the loop tests alive
WakeEnqueueReadings ==
    /\ enq_pc = "sleeping"
    /\ enq_pc' = LoopOrReturn(sp_alive, "reading")
    /\ UNCHANGED <<OtherThanWriter, n_connection_retries, iretry, client_connected,
                   log, read_unconnected, sp_pc, sp_exc, sp_alive, enqueued,
                   reading_queue, written, n_files_written, wr_pc>>

\* lines 78-80: the first step of _write_out_readings
StartWriteOutReadings ==
    /\ wr_pc = "created"
    /\ wr_pc' = LoopOrReturn(sp_alive, "getting")
    /\ UNCHANGED <<OtherThanWriter, n_connection_retries, iretry, client_connected,
                   log, read_unconnected, sp_pc, sp_exc, sp_alive, enqueued,
                   reading_queue, written, n_files_written, enq_pc>>

\* lines 80-97 and 79: a reading is taken off the queue, its file is
\* written, the count goes up, and the loop tests alive; or open() of line
\* 95 raises OSError and the coroutine ends with the reading taken
WriteOutReading ==
    /\ wr_pc = "getting"
    /\ reading_queue # <<>>
    /\ reading_queue' = Tail(reading_queue)
    /\ \/ /\ written' = Append(written, QueueGet(reading_queue))
          /\ n_files_written' = n_files_written + 1
          /\ wr_pc' = LoopOrReturn(sp_alive, "getting")
       \/ /\ wr_pc' = "raised"
          /\ UNCHANGED <<written, n_files_written>>
    /\ UNCHANGED <<OtherThanWriter, n_connection_retries, iretry, client_connected,
                   log, read_unconnected, sp_pc, sp_exc, sp_alive, enqueued,
                   enq_pc>>

\* line 57: both coroutines have returned, so has gather, and run_task; or
\* the exception of _write_out_readings comes out of gather and ends
\* run_task, while _enqueue_readings goes on
GatherReturns ==
    /\ sp_pc = "gather"
    /\ \/ /\ enq_pc = "done"
          /\ wr_pc = "done"
          /\ sp_pc' = "returned"
          /\ UNCHANGED sp_exc
       \/ /\ wr_pc = "raised"
          /\ sp_pc' = "raised"
          /\ sp_exc' = "OSError"
    /\ UNCHANGED <<OtherThanWriter, n_connection_retries, iretry, client_connected,
                   log, read_unconnected, sp_alive, enqueued,
                   reading_queue, written, n_files_written, enq_pc, wr_pc>>

\* controlled_process_async.py lines 68-73: shutdown()
WriterShutdown ==
    /\ sp_alive
    /\ sp_alive' = FALSE
    /\ UNCHANGED <<OtherThanWriter, n_connection_retries, iretry, client_connected,
                   log, read_unconnected, sp_pc, sp_exc, enqueued, reading_queue,
                   written, n_files_written, enq_pc, wr_pc>>

\* controlled_process_async.py lines 62-65: run_loop has seen alive False
\* and cancels run_task, and with it the coroutines gather waits for
CancelRunTask ==
    /\ ~sp_alive
    /\ sp_pc \in {"connecting", "after_loop", "gather"}
    /\ sp_pc' = "cancelled"
    /\ enq_pc' = IF enq_pc = "none" THEN enq_pc ELSE Cancel(enq_pc)
    /\ wr_pc' = IF wr_pc = "none" THEN wr_pc ELSE Cancel(wr_pc)
    /\ UNCHANGED <<OtherThanWriter, n_connection_retries, iretry, client_connected,
                   log, read_unconnected, sp_exc, sp_alive, enqueued,
                   reading_queue, written, n_files_written>>

WriterNext ==
    \/ ConnectAttempt
    \/ AfterConnectLoop
    \/ StartEnqueueReadings
    \/ EnqueueReading
    \/ WakeEnqueueReadings
    \/ StartWriteOutReadings
    \/ WriteOutReading
    \/ GatherReturns
    \/ WriterShutdown
    \/ CancelRunTask

WriterSpec == WriterInit /\ [][WriterNext]_vars

\* ---- a file name written by the writer and read by the plotter
\* writer lines 80-84: a reading with its timestamp is written for a device
NameInit ==
    /\ SegIdle
    /\ FitIdle
    /\ ProcIdle
    /\ RawIdle
    /\ DbIdle
    /\ WriterIdle
    /\ dev_name \in DeviceNames
    /\ timestamp \in Timestamps
    /\ csv_filename = <<>>
    /\ dev_id = <<>>
    /\ parsed_timestamp = <<>>
    /\ name_pc = "reading"

OtherThanName == <<segvars, fitvars, procvars, rawvars, dbvars, n_connection_retries,
                   iretry, client_connected, log, read_unconnected, sp_pc, sp_exc,
                   sp_alive, enqueued, reading_queue, written, n_files_written,
                   enq_pc, wr_pc>>

\* writer lines 85-90: the name of the CSV file
WriteFileName ==
    /\ name_pc = "reading"
    /\ csv_filename' = CsvFileName(dev_name, timestamp)
    /\ name_pc' = "written"
    /\ UNCHANGED <<OtherThanName, dev_name, timestamp, dev_id, parsed_timestamp>>

\* plotter lines 66-71: the device id and the timestamp read from the name
ParseFileName ==
    /\ name_pc = "written"
    /\ LET filename_split == SplitOn(csv_filename, "_") IN
       /\ dev_id' = DevIdOf(filename_split)
       /\ parsed_timestamp' = strptime(TimestampTextOf(filename_split))
    /\ name_pc' = "parsed"
    /\ UNCHANGED <<OtherThanName, dev_name, timestamp, csv_filename>>

NameNext ==
    \/ WriteFileName
    \/ ParseFileName

NameSpec == NameInit /\ [][NameNext]_vars

\* ================================================================ claims
\* the angles of the peaks of a segment entry
SegAngles(seg) == Range(seg.peak_angles)

\* the threshold of line 80
SeparationThreshold == min_n_interval_separation * interval_size

\* C1: any two distinct segments of peak_segments have disjoint peak lists:
\* no peak angle appears in more than one segment.
C1_SegmentsDisjoint ==
    \A i, j \in 1..Len(peak_segments) :
        i # j => SegAngles(peak_segments[i]) \cap SegAngles(peak_segments[j]) = {}

\* get_peak_segments has returned at least two segments
C1_Witness == pc = "done" /\ Len(peak_segments) >= 2

\* C4: every retained peak angle of a segment lies within the segment's min and
\* max, which are the smallest and largest retained angle minus/plus half the
\* neighbourhood size.
C4_PeaksWithinSegment ==
    \A k \in 1..Len(peak_segments) :
        LET seg == peak_segments[k]
            half == (neighborhood_intervals * interval_size) \div 2
        IN  /\ seg.min = MinOf(SegAngles(seg)) - half
            /\ seg.max = MaxOf(SegAngles(seg)) + half
            /\ \A a \in SegAngles(seg) : seg.min <= a /\ a <= seg.max

\* a returned segment of several retained peaks with a neighbourhood
C4_Witness ==
    /\ pc = "done"
    /\ neighborhood_size > 0
    /\ \E k \in 1..Len(peak_segments) : Len(peak_segments[k].peak_angles) >= 2

\* C5: in a segment no retained peak has a strictly taller retained peak closer
\* than the separation threshold; of two peaks of the stabilized cluster closer
\* than the threshold, the smaller one is not retained.
C5_NoTallerNeighbourRetained ==
    /\ \A k \in 1..Len(peak_segments) :
          LET seg == peak_segments[k] IN
          \A i, j \in 1..Len(seg.peak_angles) :
              ~ /\ Abs(seg.peak_angles[i] - seg.peak_angles[j]) < SeparationThreshold
                /\ seg.peak_counts[j] > seg.peak_counts[i]
    /\ pc = "for" =>
          \A p, q \in Range(last_peaks_in_seg) :
              (Abs(p[1] - q[1]) < SeparationThreshold /\ q[2] > p[2])
                  => p \notin Range(peaks_in_seg)

\* a segment was added whose cluster had a peak with a taller peak closer than
\* the threshold, and that peak was suppressed
C5_Witness ==
    /\ pc = "for"
    /\ Len(peak_segments) >= 1
    /\ \E p, q \in Range(last_peaks_in_seg) :
          /\ Abs(p[1] - q[1]) < SeparationThreshold
          /\ q[2] > p[2]
          /\ q \in Range(peaks_in_seg)
          /\ p \notin Range(peaks_in_seg)

\* C6: for every seed the while loop of the neighbourhood growth runs its body
\* at most as many times as there are candidate peaks, and then ends.
C6_GrowthBounded == n_iter <= Len(peaks)

\* the loop ended after exactly as many passes as there are candidate peaks
C6_Witness ==
    /\ pc = "while"
    /\ Len(peaks) >= 3
    /\ n_iter = Len(peaks)
    /\ peaks_in_seg = last_peaks_in_seg

\* C7: the cluster recollected by a pass of the growth loop contains the seed
\* and every peak of the cluster of the pass before.
C7_ClusterOnlyGrows ==
    (pc = "while" /\ n_iter >= 1) =>
        /\ peaks[ip] \in Range(peaks_in_seg)
        /\ Range(last_peaks_in_seg) \subseteq Range(peaks_in_seg)

\* a second pass of the loop that added a peak
C7_Witness ==
    /\ pc = "while"
    /\ n_iter >= 2
    /\ Len(peaks_in_seg) > Len(last_peaks_in_seg)

\* the validity rules on the fitted values of the result, for a peak component
\* of its model
HeightRule(c) == result.params[c].height >= min_peak_height
CenterRule(c) ==
    peak_seg.min <= result.params[c].center /\ result.params[c].center <= peak_seg.max
SigmaRule(c) ==
    /\ min_sigma <= result.params[c].sigma
    /\ 10 * result.params[c].sigma
          <= MaxSigmaScaleTenths * (MaxOf(seg_df) - MinOf(seg_df))
DominatedBy(c, o) ==
    /\ o # c
    /\ result.params[o].height > result.params[c].height
    /\ Abs(result.params[c].center - result.params[o].center) < result.params[c].sigma
DominanceRule(c) == \A o \in VoigtsOf(result.components) : ~DominatedBy(c, o)
AllRulesHold(c) == HeightRule(c) /\ CenterRule(c) /\ SigmaRule(c) /\ DominanceRule(c)

\* C2: when get_segment_peak_fit returns, every peak component of the returned
\* model satisfies all validity rules on the fitted values of the returned result.
C2_OnlyValidRemain ==
    fpc = "returned" => \A c \in VoigtsOf(result.components) : AllRulesHold(c)

\* C3: get_segment_peak_fit returns only after a pass that kept every peak
\* component it looked at; a pass that removed one is followed by another pass
\* on the refitted result.
C3_RepeatsUntilFixedPoint ==
    fpc = "returned" => VoigtsOf(result.components) = VoigtsOf(pass_input)

\* C8: the pruning loop runs at most as many passes as the segment has peaks.
C8_PruningBounded == n_pass <= Len(peak_seg.peak_angles)

\* the function returned after a pass that removed a peak component
C8_Witness ==
    /\ fpc = "returned"
    /\ n_pass = Len(peak_seg.peak_angles)
    /\ VoigtsOf(result.components) # VoigtsOf(pass_input)

\* C9: after a pass a peak component is in the list of valid components if and
\* only if all validity rules hold for it on the fitted values the pass started
\* from; dominance uses its own sigma and counts taller peaks that are dropped.
C9_KeptIffAllRules ==
    fpc = "refit" =>
        \A c \in VoigtsOf(result.components) :
            (c \in Range(heap[valid_components])) <=> AllRulesHold(c)

\* a pass dropped a peak only for being dominated, by a peak it dropped as well
C9_Witness ==
    /\ fpc = "refit"
    /\ \E c, o \in VoigtsOf(result.components) :
          /\ HeightRule(c) /\ CenterRule(c) /\ SigmaRule(c)
          /\ DominatedBy(c, o)
          /\ \A x \in VoigtsOf(result.components) : DominatedBy(c, x) => x = o
          /\ c \notin Range(heap[valid_components])
          /\ o \notin Range(heap[valid_components])

\* C10: the model refitted after a pass has exactly one linear background
\* component, and it comes first.
C10_OneBackgroundFirst ==
    (n_pass >= 1 /\ fpc \in {"while", "returned"}) =>
        /\ result.components[1] = LinearModel
        /\ Cardinality({k \in 1..Len(result.components) :
                           ~IsVoigt(result.components[k])}) = 1

\* the function returned a model that lost a peak component and kept another
C10_Witness ==
    /\ fpc = "returned"
    /\ Len(result.components) >= 2
    /\ Len(result.components) < Len(pass_input)

\* the peak entries of a list of components, with repetitions
VoigtEntries(components) == SelectSeq(components, IsVoigt)

\* C11: when every peak component fails a validity rule in a pass, the model
\* refitted next is the background alone, the loop test is false after that
\* refit, and the result returned is that refit.
C11_AllFailGivesBackgroundOnly ==
    [][(fpc = "refit" /\ \A c \in VoigtsOf(result.components) : ~AllRulesHold(c))
          => /\ result'.components = <<LinearModel>>
             /\ fpc' = "while"
             /\ heap'[valid_components'] = heap'[last_valid_components']
             /\ n_pass' = n_pass]_vars

\* a segment of one peak: the pass dropped its component and the
\* background-only refit was returned
C11_Witness ==
    /\ fpc = "returned"
    /\ Len(pass_input) = 2
    /\ result.components = <<LinearModel>>
    /\ heap[valid_components] = <<LinearModel>>

\* C12: the peak components a pass keeps are among those it looked at, which
\* are among the peaks of the segment, and no peak is kept more than once.
C12_SurvivorsNeverGrow ==
    (n_pass >= 1 /\ fpc \in {"while", "returned"}) =>
        /\ VoigtsOf(result.components) \subseteq VoigtsOf(pass_input)
        /\ VoigtsOf(pass_input) \subseteq VoigtsOf(InitialModel(peak_seg))
        /\ Len(VoigtEntries(result.components)) <= Len(VoigtEntries(pass_input))

\* the function returned after a pass that kept one peak of two
C12_Witness ==
    /\ fpc = "returned"
    /\ Cardinality(VoigtsOf(pass_input)) = 2
    /\ Cardinality(VoigtsOf(result.components)) = 1

\* the angles of a list of peaks
AnglesOf(ps) == {p[1] : p \in Range(ps)}

\* the candidate peaks at min_angle or above whose angle is within d of the
\* span of the cluster ps
PeaksWithin(ps, d) ==
    {p \in Range(peaks) :
        /\ p[1] >= min_angle
        /\ MinOf(AnglesOf(ps)) - d <= p[1]
        /\ p[1] <= MaxOf(AnglesOf(ps)) + d}

\* C17 as claimed: each pass of the growth loop recollects exactly the peaks at
\* min_angle or above within half a neighbourhood
\* (neighborhood_intervals x IntervalSize / 2) of the previous cluster.
C17_HalfNeighborhoodWindow ==
    (pc = "while" /\ n_iter >= 1) =>
        Range(peaks_in_seg) =
            PeaksWithin(last_peaks_in_seg, (neighborhood_intervals * interval_size) \div 2)

\* C17 as amended: each pass of the growth loop recollects exactly the peaks at
\* min_angle or above within a whole neighbourhood
\* (neighborhood_intervals x IntervalSize) of the previous cluster.
C17_FullNeighborhoodWindow ==
    (pc = "while" /\ n_iter >= 1) =>
        Range(peaks_in_seg) =
            PeaksWithin(last_peaks_in_seg, neighborhood_intervals * interval_size)

\* a pass collected a peak farther than half a neighbourhood from the previous
\* cluster, and left out a peak below min_angle
C17_Witness ==
    /\ pc = "while"
    /\ n_iter >= 1
    /\ \E p \in Range(peaks_in_seg) :
          p[1] > MaxOf(AnglesOf(last_peaks_in_seg))
                   + (neighborhood_intervals * interval_size) \div 2
    /\ \E q \in Range(peaks) :
          q[1] < min_angle /\ q[1] >= MinOf(AnglesOf(last_peaks_in_seg)) - neighborhood_size

\* C18: the peaks of a stabilized cluster, suppressed ones included, are
\* claimed, and a claimed peak neither seeds a later segment nor is collected
\* into a later cluster by the growth loop.
C18_ClaimedPeaksStayOut ==
    /\ (pc = "for" /\ Len(peak_segments) >= 1) =>
          AnglesOf(last_peaks_in_seg) \subseteq peak_angles_done
    /\ pc = "while" =>
          /\ peaks[ip][1] \notin peak_angles_done
          /\ AnglesOf(peaks_in_seg) \cap peak_angles_done = {}

\* the growth loop ran for a later seed while an earlier cluster had a
\* suppressed peak, which is claimed and in no segment
C18_Witness ==
    /\ pc = "while"
    /\ n_iter >= 1
    /\ \E a \in peak_angles_done :
          \A k \in 1..Len(peak_segments) : a \notin SegAngles(peak_segments[k])

\* C20: segments are in ascending angle order: every peak of an earlier segment
\* and every claimed peak is below every peak of a later cluster, and the seed
\* is the smallest-angle peak of its cluster.
C20_AscendingSeedOrder ==
    /\ \A i, j \in 1..Len(peak_segments) :
          i < j => MaxOf(SegAngles(peak_segments[i])) < MinOf(SegAngles(peak_segments[j]))
    /\ (pc = "while" /\ n_iter >= 1) =>
          /\ peaks[ip][1] = MinOf(AnglesOf(peaks_in_seg))
          /\ \A a \in peak_angles_done : a < peaks[ip][1]

\* two segments were returned, the second one grown from its seed to several peaks
C20_Witness ==
    /\ pc = "done"
    /\ Len(peak_segments) = 2
    /\ Len(peak_segments[2].peak_angles) >= 2

\* the angle ranges of two segment entries have an angle in common
RangesIntersect(s, t) == s.min <= t.max /\ t.min <= s.max

\* C19 as claimed: segments never share peaks, and for some signal and
\* configuration with neighborhood_intervals > 0 two of the segments
\* get_peak_segments returns have intersecting [min, max] ranges.
C19_RangesMayIntersect ==
    /\ C1_SegmentsDisjoint
    /\ \E step \in Steps, n \in NeighborhoodIntervals \ {0},
          sep \in IntervalSeparations, min_a \in MinAngles :
          \E pks \in CandidatePeakListsOf(UniformColumn(step, NSamples), sep) :
              LET segs == get_peak_segments(step, n, sep, min_a, pks) IN
              \E i, j \in 1..Len(segs) : i # j /\ RangesIntersect(segs[i], segs[j])

\* C19 as amended: segments never share peaks and their [min, max] ranges never
\* intersect: the max of an earlier segment is below the min of a later one.
C19_RangesNeverIntersect ==
    \A i, j \in 1..Len(peak_segments) :
        i < j =>
            /\ SegAngles(peak_segments[i]) \cap SegAngles(peak_segments[j]) = {}
            /\ peak_segments[i].max < peak_segments[j].min
            /\ ~RangesIntersect(peak_segments[i], peak_segments[j])

\* two segments were returned with a neighbourhood around their peaks
C19_Witness ==
    /\ pc = "done"
    /\ neighborhood_size > 0
    /\ Len(peak_segments) >= 2
    /\ peak_segments[1].max > MaxOf(SegAngles(peak_segments[1]))

\* the list get_peak_segments returns is the function of its arguments
ReturnsFunctionOfArguments ==
    pc = "done" =>
        peak_segments = get_peak_segments(xrd_step, neighborhood_intervals,
                                          min_n_interval_separation, min_angle, peaks)

\* C13: once the handler takes a 'q' or 'quit' command from
\* control_command_queue, _on_shutdown has been called and alive is False,
\* and eventually _post_run is called and run_loop returns.
C13_QuitShutsDownAndReturns ==
    /\ [][(HandleCommand /\ cmd' \in {"q", "quit"})
              => (~alive' /\ on_shutdown_called')]_vars
    /\ (cmd \in {"q", "quit"}) ~> (post_run_called /\ run_loop_pc = "returned")

\* a check command and then 'quit' were taken, and run_loop has returned
C13_Witness ==
    /\ cmd = "quit"
    /\ checked
    /\ on_shutdown_called
    /\ post_run_called
    /\ run_loop_pc = "returned"

\* C14: taking a 'c' or 'check' command while alive calls _on_check and leaves
\* the process running: alive stays True, _on_shutdown and _post_run are not
\* called by it, run_loop and the handler go on.
C14_CheckDoesNotShutDown ==
    [][(HandleCommand /\ alive /\ cmd' \in {"c", "check"})
          => (/\ checked'
              /\ alive'
              /\ on_shutdown_called' = on_shutdown_called
              /\ post_run_called' = post_run_called
              /\ run_loop_pc' = run_loop_pc
              /\ tasks'.handle_control_commands = "getting")]_vars

\* the state of test lines 50-52: "c" and "check" were put and taken
C14_Witness ==
    /\ cmd = "check"
    /\ n_put = 2
    /\ control_command_queue = <<>>
    /\ checked
    /\ alive
    /\ ~on_shutdown_called
    /\ ~post_run_called

\* C15: run_loop does not leave its while loop, and alive stays True, until
\* shutdown() has been called; run_task having returned or raised changes
\* neither.
C15_ActiveUntilShutDown ==
    /\ run_loop_pc \in {"post_run", "returned"} => on_shutdown_called
    /\ (run_loop_pc = "sleeping" /\ ~on_shutdown_called) => alive

\* run_task has ended, by returning or raising, and the process still is
\* alive in its loop and has handled a command
C15_Witness ==
    /\ Finished(tasks.run_task)
    /\ run_loop_pc = "sleeping"
    /\ alive
    /\ ~on_shutdown_called
    /\ checked

\* a task whose coroutine has code left to run
CanStep(status) == status \in {"created", "sleeping", "getting"}

\* C16: when _post_run starts, alive is False and none of the four tasks can
\* take a further step: each has finished or is cancelled, and none changes
\* the state from then on.
C16_PostRunAfterTasksShutDown ==
    /\ [](run_loop_pc = "post_run"
            => /\ ~alive
               /\ \A t \in TaskNames : ~CanStep(tasks[t]))
    /\ [][(run_loop_pc \in {"post_run", "returned"})
            => (/\ tasks' = tasks
                /\ counter' = counter
                /\ checked' = checked
                /\ cmd' = cmd)]_vars

\* _post_run starts with three tasks cancelled where they waited and a command
\* left on the queue that no handler will take
C16_Witness ==
    /\ run_loop_pc = "post_run"
    /\ tasks.add_user_input = "cancelled"
    /\ tasks.print_still_alive = "cancelled"
    /\ tasks.run_task = "cancelled"
    /\ tasks.handle_control_commands = "done"
    /\ control_command_queue # <<>>

\* the other peaks of the cluster ps closer to p than the threshold of line 80
NearbyPeaks(p, ps) ==
    {o \in Range(ps) : o # p /\ Abs(p[1] - o[1]) < SeparationThreshold}

\* C21: a peak of the stabilized cluster is retained if and only if it is at
\* least as tall as every other peak of the stabilized, unfiltered cluster
\* closer than min_n_interval_separation x interval_size; equal heights keep
\* it, and a taller neighbour suppresses it whether or not that neighbour is
\* retained.
C21_RetainedIffLocalMaximum ==
    (pc = "for" /\ Len(peak_segments) >= 1) =>
        /\ Range(peaks_in_seg) =
               {p \in Range(last_peaks_in_seg) :
                   \A o \in NearbyPeaks(p, last_peaks_in_seg) : p[2] >= o[2]}
        /\ peak_segments[Len(peak_segments)].peak_angles =
               [k \in 1..Len(peaks_in_seg) |-> peaks_in_seg[k][1]]

\* a cluster was filtered in which p is suppressed by q alone and q is itself
\* suppressed by r
C21_Witness ==
    /\ pc = "for"
    /\ Len(peak_segments) >= 1
    /\ \E p, q, r \in Range(last_peaks_in_seg) :
          /\ NearbyPeaks(p, last_peaks_in_seg) = {q}
          /\ r \in NearbyPeaks(q, last_peaks_in_seg)
          /\ p[2] < q[2]
          /\ q[2] < r[2]
          /\ p \notin Range(peaks_in_seg)
          /\ q \notin Range(peaks_in_seg)
          /\ r \in Range(peaks_in_seg)

\* the candidate peaks at or above min_angle
PeaksAbove == SelectSeq(peaks, LAMBDA p : p[1] >= min_angle)

\* C22: a candidate peak below min_angle never seeds a segment, never is in a
\* cluster, never is claimed and never is in a segment, and the segments
\* returned, their min and max included, are those returned for the candidate
\* list without the peaks below min_angle.
C22_LowPeaksDiscarded ==
    /\ pc = "while" =>
          /\ peaks[ip][1] >= min_angle
          /\ \A p \in Range(peaks_in_seg) : p[1] >= min_angle
    /\ \A a \in peak_angles_done : a >= min_angle
    /\ \A k \in 1..Len(peak_segments) :
          \A a \in SegAngles(peak_segments[k]) : a >= min_angle
    /\ pc = "done" =>
          peak_segments = get_peak_segments(xrd_step, neighborhood_intervals,
                                            min_n_interval_separation, min_angle,
                                            PeaksAbove)

\* segments were returned for a signal with a candidate peak below min_angle
\* that is within the growth window of a segment's peak
C22_Witness ==
    /\ pc = "done"
    /\ Len(peak_segments) >= 1
    /\ \E p \in Range(peaks) :
          /\ p[1] < min_angle
          /\ \E a \in SegAngles(peak_segments[1]) : a - p[1] <= neighborhood_size

\* the distinct values of the rounded differences of consecutive angles
DistinctStepSizes == Range(StepSizes(xrd_angles))

\* C23: once the interval size has been asked for, a column whose rounded
\* consecutive differences take more than one value has made get_peak_segments
\* raise, with no peak detected and no segment returned; a column where they
\* take exactly one value has raised nothing there, that value is
\* interval_size, and with neighborhood_intervals >= 0 no error is raised at all.
C23_UnevenSpacingRaises ==
    pc # "call" =>
        /\ Cardinality(DistinctStepSizes) > 1 =>
              /\ pc = "raised"
              /\ error = "not_evenly_spaced"
              /\ peaks = <<>>
              /\ peak_segments = <<>>
        /\ Cardinality(DistinctStepSizes) = 1 =>
              /\ error \notin {"not_evenly_spaced", "max_of_empty"}
              /\ DistinctStepSizes = {interval_size}
              /\ neighborhood_intervals >= 0 => (error = "none" /\ pc # "raised")

\* a column of three or more angles with two distinct rounded steps made the
\* call raise
C23_Witness ==
    /\ pc = "raised"
    /\ error = "not_evenly_spaced"
    /\ Len(xrd_angles) >= 3
    /\ Cardinality(DistinctStepSizes) = 2

\* C24: for a signal shorter than the detector's window, signals of zero or one
\* sample included, get_peak_segments raises no error and returns an empty
\* list (stated for the calls no other claim lets fail: evenly spaced rounded
\* steps, neighborhood_intervals >= 0).
C24_ShortSignalEmptyResult ==
    (/\ Len(xrd_angles) < WindowLength
     /\ Cardinality(DistinctStepSizes) <= 1
     /\ neighborhood_intervals >= 0)
        => /\ pc # "raised"
           /\ pc = "done" => peak_segments = <<>>

\* every peak component of the current result satisfies all validity rules
AllPeaksValid == \A c \in VoigtsOf(result.components) : AllRulesHold(c)

\* C25: when every peak component of the initial fit satisfies all validity
\* rules, the pass keeps them all, the model refitted is the initial model
\* with the same fitted values, the loop test is false after it, and that
\* result, with exactly the segment's peak components, is what is returned.
C25_ValidFitPrunesNothing ==
    /\ [][(fpc = "refit" /\ n_pass = 1 /\ AllPeaksValid)
             => (/\ heap[valid_components] = InitialModel(peak_seg)
                 /\ result' = result
                 /\ result'.components = InitialModel(peak_seg)
                 /\ heap'[valid_components'] = heap'[last_valid_components']
                 /\ fpc' = "while")]_vars
    /\ [][(fpc = "while" /\ n_pass = 1 /\ AllPeaksValid
              /\ result.components = InitialModel(peak_seg))
             => (fpc' = "returned" /\ result' = result /\ n_pass' = n_pass)]_vars

\* a fit of two peaks, both valid, was returned with both peak components
C25_Witness ==
    /\ fpc = "returned"
    /\ n_pass = 1
    /\ Len(peak_seg.peak_angles) = 2
    /\ result.components = InitialModel(peak_seg)
    /\ AllPeaksValid

\* C26: the initial model has one background with slope -0.01 and intercept 0
\* and one peak component per segment peak, with the initial parameters
\* amplitude = the peak's height, center = the peak's angle, sigma = 0.05 and
\* fraction = 1 (values in hundredths).
C26_InitialModelSeeds ==
    fpc # "fit" =>
        /\ Len(SelectSeq(InitialModel(peak_seg), LAMBDA c : ~IsVoigt(c))) = 1
        /\ Len(VoigtEntries(InitialModel(peak_seg))) = Len(peak_seg.peak_angles)
        /\ params[<<LinearModel, "slope">>] = -1
        /\ params[<<LinearModel, "intercept">>] = 0
        /\ \A j \in 1..Len(peak_seg.peak_angles) :
              LET c == PseudoVoigtModel(j - 1) IN
              /\ params[<<c, "amplitude">>] = 100 * peak_seg.peak_counts[j]
              /\ params[<<c, "center">>] = 100 * peak_seg.peak_angles[j]
              /\ params[<<c, "sigma">>] = 5
              /\ params[<<c, "fraction">>] = 100

\* the result with the same fitted values, reported as converged
ConvergedTwin(res) == [res EXCEPT !.success = TRUE, !.aborted = FALSE]

\* C27: a fit reported as not converged or aborted raises nothing: the pass
\* keeps exactly the components it would keep for the same values reported as
\* converged, the refit is of those components, and the result returned
\* carries the success and aborted fields of the last fit.
C27_NonConvergenceIgnored ==
    /\ fpc \in {"fit", "while", "refit", "returned"}
    /\ (fpc = "refit" /\ n_pass = 1) =>
          heap[valid_components] = AppendValid(pass_input, ConvergedTwin(result), <<>>)
    /\ (fpc \in {"while", "returned"} /\ n_pass = 1) =>
          result.components = NewModel(heap[valid_components])
    /\ fpc = "returned" => {"success", "aborted"} \subseteq DOMAIN result

\* the pass dropped a component and the refit returned is reported as not
\* converged
C27_Witness ==
    /\ fpc = "returned"
    /\ ~result.success
    /\ Len(result.components) < Len(pass_input)
    /\ Len(result.components) >= 2

\* C28: a call with an out-of-range configuration value (a negative
\* neighborhood_intervals) is rejected with an error before any signal data is
\* processed: it never gets past the call.
C28_BadConfigurationRejected ==
    neighborhood_intervals < 0 =>
        /\ pc \in {"call", "raised"}
        /\ pc = "raised" => error = "configuration"

\* a negative neighborhood_intervals went through the detector and the call
\* ended in the error of line 62
NegativeNeighborhoodRaisesLate ==
    /\ neighborhood_intervals < 0
    /\ pc = "raised"
    /\ error = "min_of_empty"
    /\ peaks # <<>>

\* a negative neighborhood_intervals was accepted and segments were returned
NegativeNeighborhoodReturns ==
    /\ neighborhood_intervals < 0
    /\ pc = "done"
    /\ peak_segments # <<>>

\* the lines of a text, each with its terminator
RECURSIVE Lines(_)
Lines(t) ==
    IF t = <<>> THEN <<>>
    ELSE IF \E i \in 1..Len(t) : t[i] = "\n"
         THEN LET i == MinOf({j \in 1..Len(t) : t[j] = "\n"})
              IN  <<SubSeq(t, 1, i)>> \o Lines(SubSeq(t, i + 1, Len(t)))
         ELSE <<t>>

\* the text the source of the call yields
SourceText == Decode(SourceBytes(source_kind, file_bytes))

\* the second line of the source, empty when it has fewer than two lines
SecondLineOfSource ==
    IF Len(Lines(SourceText)) >= 2 THEN Lines(SourceText)[2] ELSE <<>>

\* what follows the last comma of a line, the whole line without a comma
AfterLastComma(line) ==
    LET last == MaxOf({0} \cup {i \in 1..Len(line) : line[i] = ","})
    IN  SubSeq(line, last + 1, Len(line))

MalformedHeader ==
    \/ Len(Lines(SourceText)) < 2
    \/ \A i \in 1..Len(SecondLineOfSource) : SecondLineOfSource[i] # ","

\* C30: called on a source whose header is malformed, get_raw_file_name
\* raises an error instead of returning a value.
C30_MalformedHeaderRaises ==
    (source_kind \in {"path", "bytes"} /\ raw_pc # "call" /\ MalformedHeader)
        => raw_pc = "raised"

\* a command that is text and is neither a quit nor a check command
Unrecognized(c) ==
    c # NoneCommand /\ Lower(c) \notin {"q", "quit", "c", "check"}

\* the step in which _handle_control_commands takes a command off the queue
\* (no other step shortens the queue)
CommandTaken ==
    /\ control_command_queue # <<>>
    /\ control_command_queue' = Tail(control_command_queue)

\* C34: when the handler takes an unrecognized command off the queue, alive
\* stays as it was, neither _on_check nor _on_shutdown runs, the commands
\* behind it stay on the queue in their order, and the handler of a live
\* process waits for the next command.
C34_UnrecognizedCommandSkipped ==
    [][(CommandTaken /\ Unrecognized(Head(control_command_queue)))
          => (/\ alive' = alive
              /\ checked' = checked
              /\ on_shutdown_called' = on_shutdown_called
              /\ alive => tasks'.handle_control_commands = "getting")]_vars

\* the empty command of a line end read from stdin was skipped by a live
\* process that never ran _on_check or _on_shutdown, and a later command
\* waits on the queue for the handler
C34_Witness ==
    /\ cmd = ""
    /\ alive
    /\ ~checked
    /\ ~on_shutdown_called
    /\ tasks.handle_control_commands = "getting"
    /\ control_command_queue # <<>>

\* C35: once alive is False after run_loop started, no command taken off
\* the queue makes _on_check run, and none makes _on_shutdown run again.
C35_NoCommandActedOnAfterShutdown ==
    [][(~alive /\ run_loop_pc # "constructed")
          => (/\ checked' = checked
              /\ ~(/\ on_shutdown_called
                   /\ CommandTaken
                   /\ Head(control_command_queue) # NoneCommand
                   /\ IsQuit(Head(control_command_queue))))]_vars

\* the candidate peaks at or above min_angle
EligiblePeaks == {p \in Range(peaks) : p[1] >= min_angle}

\* the eligible peaks a chain of steps of at most neighborhood_size links
\* to a peak of S
RECURSIVE LinkedTo(_)
LinkedTo(S) ==
    LET T == S \cup {q \in EligiblePeaks :
                        \E s \in S : Abs(q[1] - s[1]) <= neighborhood_size}
    IN  IF T = S THEN S ELSE LinkedTo(T)

\* the indices of the segments made of peaks of the set S
SegmentsOf(S) ==
    {k \in 1..Len(peak_segments) :
        SegAngles(peak_segments[k]) \cap {q[1] : q \in S} # {}}

\* C37: a cluster is added to peak_angles_done only when none of its peaks
\* is there yet; when get_peak_segments returns, the claimed angles are
\* those of the candidate peaks at or above min_angle, each such peak has
\* exactly one segment made from the peaks linked to it, it is in that
\* segment's peak list or a taller linked peak is nearer to it than the
\* separation threshold, and there is no segment exactly when there is no
\* such peak.
C37_EveryPeakClaimedOnce ==
    /\ [](pc = "done" =>
            /\ peak_angles_done = {p[1] : p \in EligiblePeaks}
            /\ \A p \in EligiblePeaks :
                  /\ Cardinality(SegmentsOf(LinkedTo({p}))) = 1
                  /\ Cardinality(SegmentsOf({p})) <= 1
                  /\ \/ SegmentsOf({p}) = SegmentsOf(LinkedTo({p}))
                     \/ /\ SegmentsOf({p}) = {}
                        /\ \E q \in LinkedTo({p}) :
                              /\ q[2] > p[2]
                              /\ Abs(q[1] - p[1]) < SeparationThreshold
            /\ (peak_segments = <<>>) <=> (EligiblePeaks = {}))
    /\ [][(pc = "while" /\ pc' = "for")
             => (/\ {p[1] : p \in Range(peaks_in_seg)} \cap peak_angles_done = {}
                 /\ Range(peaks_in_seg) = LinkedTo({peaks[ip]})
                 /\ peak_angles_done' =
                       peak_angles_done \cup {p[1] : p \in Range(peaks_in_seg)})]_vars

\* get_peak_segments returned two segments for three candidate peaks at or
\* above min_angle, one of them suppressed by a taller peak of its cluster
C37_Witness ==
    /\ pc = "done"
    /\ Len(peak_segments) = 2
    /\ Cardinality(EligiblePeaks) = 3
    /\ \E p \in EligiblePeaks : SegmentsOf({p}) = {}

\* the locals of get_segment_peak_fit as a first call has them at line 123
FreshCall ==
    /\ params = <<>>
    /\ result = NoResult
    /\ heap = <<<<>>>>
    /\ valid_components = 1
    /\ last_valid_components = None
    /\ n_pass = 0
    /\ pass_input = <<>>

RowsOf(table, key) == {r \in db : r.table = table /\ r.key = key}

\* C31: in the committed database every DataSegment row has exactly one
\* SegmentFit row and exactly one Background row.
C31_SegmentHasOneFitOneBackground ==
    \A s \in RowsOf("DataSegment", 0) :
        /\ Cardinality(RowsOf("SegmentFit", s.item)) = 1
        /\ Cardinality(RowsOf("Background", s.item)) = 1

\* the lines of a file of n lines that follow its two header lines
DataLines(n) == [i \in 1..(IF n > 2 THEN n - 2 ELSE 0) |-> 2 + i]

\* C36: once add_datafile_to_db has committed the DataPoint rows, there is
\* one for every line after the two header lines, and the signal that
\* is analysed consists of those lines in their order.
C36_EveryDataRowStored ==
    add_pc \in {"get_peak_segments", "segment", "candidate_peaks", "fit", "added"}
        => /\ xrd_df = DataLines(n_lines)
           /\ {r.item : r \in RowsOf("DataPoint", 0)} = Range(DataLines(n_lines))

\* add_datafile_to_db ran to its end: the rows it read and every segment
\* it found are in the database
WholeFileAdded ==
    /\ add_pc = "added"
    /\ exc = "none"
    /\ RowsOf("DataSet", 0) # {}
    /\ {r.item : r \in RowsOf("DataPoint", 0)} = Range(xrd_df)
    /\ \A k \in 1..n_peak_segments :
          /\ Row("DataSegment", 0, k) \in db
          /\ RowsOf("CandidatePeak", k) # {}
          /\ RowsOf("SegmentFit", k) # {}
          /\ RowsOf("Background", k) # {}
    /\ session_new = {}

\* C38: _process_downloaded_data_file lets no exception out; an exception
\* add_datafile_to_db raises is the value returned; None is returned
\* exactly when add_datafile_to_db ran to its end without one.
C38_ExceptionsReturnedNotRaised ==
    /\ returned # "propagated"
    /\ returned \in Exceptions => (add_pc = "raised" /\ returned = exc)
    /\ returned = "None" <=> WholeFileAdded
    /\ returned = "running" => add_pc # "added"

\* the fit of the second segment raised after the first segment was
\* stored with its fit, and the exception was returned
C38_Witness ==
    /\ returned = "TypeError"
    /\ i_segment = 1
    /\ Row("DataSegment", 0, 2) \in db

\* every connection attempt of the loop has failed
AllAttemptsFailed ==
    /\ iretry = n_connection_retries
    /\ ~client_connected
    /\ sp_pc \notin {"idle", "connecting", "cancelled"}

\* C33: when every one of the n_connection_retries attempts has failed, the
\* error is logged and BleakDeviceNotFoundError is raised again; "Connected!"
\* is not logged and no sensor read is made on the client.
C33_ExhaustedRetriesRaise ==
    AllAttemptsFailed
        => /\ "failed_after_retries" \in log
           /\ sp_pc = "raised"
           /\ sp_exc = "BleakDeviceNotFoundError"
           /\ "connected" \notin log
           /\ ~read_unconnected

\* C39: the readings written to CSV files are, in their order, the first
\* of the readings put on the queue, and n_files_written counts them.
C39_WrittenIsPrefixOfEnqueued ==
    /\ Len(written) <= Len(enqueued)
    /\ written = SubSeq(enqueued, 1, Len(written))
    /\ n_files_written = Len(written)

\* the writer has written two readings while a third waits on the queue:
\* the enqueuer ran ahead of it
C39_Witness ==
    /\ Len(written) = 2
    /\ Len(enqueued) = 3
    /\ reading_queue # <<>>

\* a datetime without its microseconds
ToTheSecond(t) == [t EXCEPT ![7] = 0]

\* C40: the device id and the timestamp the plotter reads from a file name
\* the writer made are the writer's device name and the reading's
\* timestamp to the second.
C40_FileNameRoundTrip ==
    name_pc = "parsed"
        => /\ dev_id = dev_name
           /\ parsed_timestamp = ToTheSecond(timestamp)

\* the name of a device with an underscore between two letters and a
\* timestamp with microseconds was written and read back
C40_Witness ==
    /\ name_pc = "parsed"
    /\ dev_name = <<"a", "_", "a">>
    /\ timestamp[7] # 0
    /\ dev_id = dev_name

====
